---- MODULE Spec2Model ----
(***************************************************************************)
(* A model of the VOSpace client of src/vos/vos.py: the transport stream   *)
(* VOFile (open, write, close, checkstatus, read), the Client operations   *)
(* that are finished by close() (mkdir, delete, status, update) and the    *)
(* streaming copy.  The server is the environment: every response the      *)
(* client reads is drawn from Responses.                                   *)
(***************************************************************************)
EXTENDS Integers, Sequences, FiniteSets, TLC

(* ------------------------------ bounds --------------------------------- *)

\* Responses the server gives within one client operation.
MaxResp == 3
\* write() calls that succeed on one connection.
MaxWrites == 2
\* Longest payload (local file, response body) of a copy.
MaxLen == 3
\* The copy loop's buffer size; 8388608 in the source (vos.py:20), scaled down
\* so that a payload needs several trips around the loop.
BUFSIZE == 2
\* Pages of children the server serves to one getNode.
MaxPages == 3
\* Children on one page.
MaxPageLen == 2
\* Operations a caller makes on one Node object.
MaxNodeOps == 2
\* Characters of the path given to fixURI.
MaxPath == 4
\* Ticks of the wall clock that getConnection is followed for.
MaxClock == 4
\* Seconds in one tick of that clock.
Tick == 600
\* Nodes constructed in one process.
MaxMade == 3

(* ------------------------------ values --------------------------------- *)

Bytes == {"a", "b"}

Min(a, b) == IF a < b THEN a ELSE b

\* All byte strings of length at most n.
RECURSIVE StringsUpTo(_)
StringsUpTo(n) ==
    IF n = 0 THEN {<<>>}
    ELSE LET shorter == StringsUpTo(n - 1)
         IN  shorter \cup {Append(s, b) : s \in {t \in shorter : Len(t) = n - 1}, b \in Bytes}

Contents == StringsUpTo(MaxLen)

\* n copies of byte b.
Rep(b, n) == [i \in 1..n |-> b]

\* The serialised node document, str(node), that mkdir and update post.
NodeDoc == Rep("a", 10)

\* Buffers handed to write(): empty, short, and long enough for a hex length
\* of one letter digit (10 -> "A") and of two digits (26 -> "1A").
Bufs == {<<>>, <<"a">>, NodeDoc, Rep("b", 26)}

\* A header the response does not carry (getheader returns its default).
NoHeader == "<none>"

NodeURL == "https://host/vospace/nodes/a"
ViewURL == "https://host/vospace/nodes/a?view=data"
DataURL == "https://host/data/pub/vospace/a"
AltURL  == "https://alt/a"
Alt2URL == "https://alt2/a"

\* size=None of read(size).
None == -1

(* --------------------------- server responses -------------------------- *)

Resp(st, loc, ra, body) ==
    [obj |-> TRUE, status |-> st, location |-> loc, retryAfter |-> ra, body |-> body]

\* What a response can look like.  Only the headers the client reads for a
\* status vary with it: Location for 302/303, Retry-After for 503; the body
\* matters for 200/206 (payload) and 409 (the DuplicateNode fault text).
Responses ==
         {Resp(st, NoHeader, NoHeader, b) : st \in {200, 206}, b \in {<<>>, <<"a">>, <<"a", "b", "a">>}}
    \cup {Resp(st, loc, NoHeader, <<>>) : st \in {302, 303}, loc \in {NoHeader, "", AltURL, Alt2URL}}
    \cup {Resp(503, NoHeader, ra, <<>>) : ra \in {NoHeader, "soon", "0", "2"}}
    \cup {Resp(409, NoHeader, NoHeader, b) : b \in {<<"DuplicateNode">>, <<"NodeBusy">>}}
    \cup {Resp(st, NoHeader, NoHeader, <<"e">>) : st \in {201, 401, 404, 416, 500}}

\* VOFile.__init__ line 515: self.resp=503, an int and not a response object.
InitResp == [obj |-> FALSE, status |-> 503, location |-> NoHeader,
             retryAfter |-> NoHeader, body |-> <<>>]

(* ------------------------- outcomes of a call -------------------------- *)

\* A call returns a value: ret names its kind ("True", "None", "int",
\* "bytes", "digest", "False"), n its number, data its bytes.
Return(tag, n, data) ==
    [kind |-> "return", exc |-> "", err |-> "", status |-> 0, url |-> "",
     ret |-> tag, n |-> n, data |-> data]

\* A call raises exc (IOError, OSError, ...) with errno err; status is the
\* HTTP status when the errno slot carries it (err = "HTTP").
Raise(exc, err, st, url, msg) ==
    [kind |-> "raise", exc |-> exc, err |-> err, status |-> st, url |-> url,
     ret |-> "", n |-> 0, data |-> msg]

\* No call has finished: none was made, or read() is inside its retry loop.
Pending ==
    [kind |-> "none", exc |-> "", err |-> "", status |-> 0, url |-> "",
     ret |-> "", n |-> 0, data |-> <<>>]

(* ------------------------------ the wire ------------------------------- *)

HexDigit == <<"0", "1", "2", "3", "4", "5", "6", "7", "8", "9",
              "A", "B", "C", "D", "E", "F">>

\* '%X' % n : upper-case hexadecimal, no padding.
RECURSIVE Hex(_)
Hex(n) ==
    IF n < 16 THEN <<HexDigit[n + 1]>>
    ELSE Append(Hex(n \div 16), HexDigit[(n % 16) + 1])

CRLF == <<"\r", "\n">>

\* close() line 543: self.httpCon.send('0\r\n\r\n')
Terminator == <<"0">> \o CRLF \o CRLF

(* ------------------------------- state --------------------------------- *)

VARIABLES
    f,        \* the VOFile: exists, closed, resp, httpCon, url, size, fpos
    wire,     \* bytes sent after the request headers on f's current connection
    conns,    \* connections that are open (acquired and not closed)
    log,      \* the operation's events in order: requests, responses, sleeps
    written,  \* buffers whose write() returned, on f's current connection
    call,     \* the call in progress or last made: name and arguments
    pc,       \* "idle", or where a multi-step call stands
    result,   \* outcome of the last call
    cp,       \* the state of a copy in progress
    pg,       \* the state of a getNode that loads a container's children
    node,     \* a Node object the caller holds
    nop,      \* the operations made on node so far, and what a flush posted
    ux,       \* a URI and what fixURI made of it, once and twice
    opened,   \* the arguments of a Client.open call
    gconn,    \* Connection.getConnection: the clock, the loop, the outcome
    mv,       \* the arguments of a Client.move call and how far it got
    made,     \* Node construction: the shared default dictionary, the node made
    server    \* the children the server holds for a container, its page size

vars == <<f, wire, conns, log, written, call, pc, result, cp, pg, node, nop, ux,
          opened, gconn, mv, made, server>>

\* What the operations on nodes, pages and URIs leave alone as well.
yvars == <<opened, gconn, mv, made, server>>

\* What the VOFile and copy operations leave alone.
xvars == <<pg, node, nop, ux, yvars>>

\* The state the operators below transform.
World == [f |-> f, wire |-> wire, conns |-> conns, log |-> log, written |-> written]

Commit(w) ==
    /\ f' = w.f
    /\ wire' = w.wire
    /\ conns' = w.conns
    /\ log' = w.log
    /\ written' = w.written

\* Events: a request put on a fresh connection, a response read from it,
\* a time.sleep(secs).
ReqEv(method, url) == [ev |-> "req", method |-> method, url |-> url, secs |-> 0, r |-> InitResp]
RespEv(r, url)     == [ev |-> "resp", method |-> "", url |-> url, secs |-> 0, r |-> r]
SleepEv(secs, url) == [ev |-> "sleep", method |-> "", url |-> url, secs |-> secs, r |-> InitResp]

NReq(l)  == Cardinality({i \in 1..Len(l) : l[i].ev = "req"})
NResp(l) == Cardinality({i \in 1..Len(l) : l[i].ev = "resp"})

NoFile == [exists |-> FALSE, closed |-> TRUE, resp |-> InitResp, httpCon |-> 0,
           url |-> "", size |-> None, fpos |-> 0]

\* copy()'s locals.  dir: "up" (dest is remote) or "down" (src is remote);
\* src: what is left of the local input file; out: the local output file;
\* md5: the bytes fed to the MD5 accumulator; stage: how far copy() got;
\* xfer: the status that ended the transfer's own request; stored: the MD5
\* property of the node fetched after the transfer; checkMD5: the local.
NoCopy == [dir |-> "", sendMD5 |-> FALSE, srcSize |-> 0, content |-> <<>>, src |-> <<>>,
           out |-> <<>>, destSize |-> 0, md5 |-> <<>>, stage |-> "", xfer |-> 0,
           stored |-> <<>>, checkMD5 |-> <<>>]

\* getNode()'s locals while it loads children.  stage: how far it got;
\* nodeList: node._nodeList, the URIs of the children added; nextURI: the
\* local of that name; served: the pages the server has served, in order.
NoURI == "<None>"
NoPage == [stage |-> "", limit |-> 0, isdir |-> FALSE, nodeList |-> <<>>,
           nextURI |-> NoURI, served |-> <<>>]

\* A property value that is Python's None (an element without text, a
\* tombstone in the property map), and the mark of a key the map lacks.
null    == "<None>"
missing == "<missing>"

\* The properties the model follows.
Keys == {"ispublic", "groupread", "groupwrite", "date"}

\* A Node object: type; xml, the node element's properties elements in
\* order, each the list of its property elements; props, the property map;
\* the cached groupread, groupwrite and isPublic; attr, the stat attributes
\* (set is FALSE while the dictionary has no st_mode).
NoNode == [type |-> "", xml |-> <<>>, props |-> [k \in Keys |-> missing],
           groupread |-> "", groupwrite |-> "", isPublic |-> FALSE,
           attr |-> [set |-> FALSE, st_mode |-> 0]]

\* hist: the operations made on the node; start: the node as constructed;
\* stored: the property map of the node addProps fetched; flushed: a flush
\* wrote its document; posted: the properties elements of that document.
NoOp == [hist |-> <<>>, start |-> NoNode, stored |-> [k \in Keys |-> missing],
         flushed |-> FALSE, posted |-> <<>>]

\* uri: the argument of fixURI, a string as the sequence of its characters;
\* once: the outcome of fixURI(uri); twice: that of fixURI on what it
\* returned; calls: how many of the two calls were made.
NoFix == [uri |-> <<>>, once |-> Pending, twice |-> Pending, calls |-> 0]

\* The mode argument of Client.open: an integer of os.O_* flags, or a string.
ModeArg(type, val) == [type |-> type, val |-> val]

\* Client.open's arguments.  stage: "" before the call, "done" after it;
\* URL is NoHeader when the caller gives none.
NoOpen == [stage |-> "", mode |-> ModeArg("int", 0), head |-> FALSE, uri |-> <<>>,
           view |-> NoHeader, URL |-> NoHeader]

\* getConnection's locals and the wall clock.  now: time.time(), in units of
\* Tick seconds; stage: "" before the call, "loop" inside "while True",
\* "done" after it; attempts: the connect() calls made; connected: the last
\* connect() succeeded; last: what the last connect() did.
NoConn == [stage |-> "", now |-> 0, timestart |-> 0, attempts |-> 0, scheme |-> "",
           connected |-> FALSE, last |-> ""]

\* Client.move's arguments and locals.  stage: "", "read" while con.read()
\* runs, "done"; doc: the transfer document written.
NoMove == [stage |-> "", srcURI |-> <<>>, destURI |-> <<>>, doc |-> <<>>]

\* The keys of a dictionary given to Node.create.
PKeys == Keys \cup {"type"}

\* What a Node constructor is given.  how: "parse" (an element), "create" (a
\* uri string) or "mkdir"; element: FALSE when the element is None; type:
\* the element's type attribute or the nodeType argument; uri: the element's
\* uri attribute, null when it has none, or the uri argument; given: a
\* properties dictionary was passed, dict; xml: the element's properties.
NoArg == [how |-> "", element |-> FALSE, type |-> null, uri |-> <<>>, given |-> FALSE,
          dict |-> [k \in PKeys |-> missing], xml |-> <<>>]

\* The Node object a constructor made.  uri is missing while the object has
\* no such attribute; ptype is the entry 'type' of its property map.
NoObj == [exists |-> FALSE, type |-> null, uri |-> <<missing>>, props |-> [k \in Keys |-> missing],
          ptype |-> missing]

\* Node construction.  defaults: the 'type' entry of the dictionary that is
\* the default of the properties parameter (missing until something puts
\* one in); stage: "" or "done"; count: the constructions made so far in the
\* process; arg: what the constructor was given; obj: the Node object made.
NoMake == [defaults |-> missing, stage |-> "", count |-> 0, arg |-> NoArg, obj |-> NoObj]

\* The container on the server: its children in order, and how many
\* children the server puts on a page.
NoServer == [children |-> <<>>, pageLen |-> 1]

\* The state of the parts an operation does not touch.
Rest ==
    /\ opened = NoOpen
    /\ gconn = NoConn
    /\ mv = NoMove
    /\ made = NoMake
    /\ server = NoServer

(* ------------------------------- VOFile -------------------------------- *)

\* VOFile.open: a fresh connection from the connector, the request line and
\* headers.  The connection's number is the request's place in the log.
open(w, URL, method) ==
    LET id == NReq(w.log) + 1
    IN  [w EXCEPT !.f.url = URL,
                  !.f.httpCon = id,
                  !.f.closed = FALSE,
                  !.conns = @ \cup {id},
                  !.log = Append(@, ReqEv(method, URL)),
                  !.wire = <<>>,
                  !.written = <<>>]

\* VOFile.__init__
VOFile(w, URL, method, size) ==
    open([w EXCEPT !.f = [exists |-> TRUE, closed |-> TRUE, resp |-> InitResp,
                          httpCon |-> 0, url |-> "", size |-> size, fpos |-> 0]],
         URL, method)

\* Mutant of NotConnected: the closed flag is not looked at.
NotConnected_noClosed(fv) == fv.httpCon = 0

\* write() line 649: "if not self.httpCon or self.closed".
NotConnected(fv) == fv.httpCon = 0 \/ fv.closed

\* Mutant of ChunkFrame: the size line is written in decimal ('%d').
ChunkFrame_decimal(buf) ==
    ((IF Len(buf) < 10 THEN <<HexDigit[Len(buf) + 1]>>
      ELSE <<HexDigit[(Len(buf) \div 10) + 1], HexDigit[(Len(buf) % 10) + 1]>>) \o CRLF)
    \o (buf \o CRLF)

\* write() lines 651-652: send('%X\r\n' % len(buf)); send(buf+'\r\n').
ChunkFrame(buf) == (Hex(Len(buf)) \o CRLF) \o (buf \o CRLF)

\* VOFile.write: one chunk frame, sent as the size line and then the body.
write(w, buf) ==
    IF NotConnected(w.f)
    THEN [w |-> w, out |-> Raise("OSError", "ENOTCONN", 0, w.f.url, <<>>)]
    ELSE [w |-> [w EXCEPT !.wire = @ \o ChunkFrame(buf),
                          !.written = Append(@, buf)],
          out |-> Return("int", Len(buf), <<>>)]

\* close()'s default for code (line 536).
CloseCodes == {200, 201, 202, 206, 302, 303, 503}
\* checkstatus()'s default for codes (line 552).
CheckstatusCodes == {200, 201, 202, 206, 302, 303, 503, 416}
\* Client.status's code (line 951).
StatusCodes == {200, 303, 302}

HasDuplicateNode(body) == \E i \in 1..Len(body) : body[i] = "DuplicateNode"

\* Mutant of StatusError: 404 and 401 are not told apart from the rest.
StatusError_generic(st, body, url) ==
    IF st = 409 /\ HasDuplicateNode(body) THEN Raise("OSError", "EEXIST", 0, url, <<>>)
    ELSE Raise("IOError", "HTTP", st, url, IF st = 409 THEN <<>> ELSE body)

\* checkstatus() lines 556-566: the exception a rejected status raises.
\* The 409 branch reads the body for its search, so the message read after
\* it is empty.
StatusError(st, body, url) ==
    IF st = 404 THEN Raise("IOError", "ENOENT", 0, url, <<>>)
    ELSE IF st = 401 THEN Raise("IOError", "EACCES", 0, url, <<>>)
    ELSE IF st = 409 /\ HasDuplicateNode(body) THEN Raise("OSError", "EEXIST", 0, url, <<>>)
    ELSE Raise("IOError", "HTTP", st, url, IF st = 409 THEN <<>> ELSE body)

\* VOFile.checkstatus.  A rejected status raises; reading the body for the
\* message (and for the DuplicateNode search) consumes it.
checkstatus(w, codes) ==
    LET r  == w.f.resp
        st == r.status
    IN  IF ~r.obj
        THEN [w |-> w, out |-> Raise("AttributeError", "", 0, "", <<>>)]
        ELSE IF st \notin codes
        THEN [w |-> IF st \in {404, 401} THEN w ELSE [w EXCEPT !.f.resp.body = <<>>],
              out |-> StatusError(st, r.body, w.f.url)]
        ELSE [w |-> [w EXCEPT !.f.size = Len(r.body)], out |-> Return("True", 0, <<>>)]

\* Mutant of AlreadyClosed: close() does not return early.
AlreadyClosed_never(fv) == FALSE

\* close() line 539: "if self.closed: return".
AlreadyClosed(fv) == fv.closed

\* VOFile.close.  r is the response the server gives; flt says whether the
\* transport works ("ok"), send raises ("send") or getresponse raises
\* ("getresponse"): the except clause swallows either.
close(w, code, r, flt) ==
    IF AlreadyClosed(w.f)
    THEN [w |-> w, out |-> Return("None", 0, <<>>)]
    ELSE LET sent == IF flt = "send" THEN w ELSE [w EXCEPT !.wire = @ \o Terminator]
             got  == IF flt = "ok"
                     THEN [sent EXCEPT !.f.resp = r,
                                       !.log = Append(@, RespEv(r, w.f.url)),
                                       !.conns = @ \ {w.f.httpCon}]
                     ELSE sent
         IN  checkstatus([got EXCEPT !.f.closed = TRUE], code)

\* resp.read(size): up to size bytes of what is left of the body.
Take(body, size) ==
    IF size = None THEN body ELSE SubSeq(body, 1, Min(size, Len(body)))
Drop(body, size) ==
    IF size = None THEN <<>> ELSE SubSeq(body, Min(size, Len(body)) + 1, Len(body))

IsInt(h) == h \in {"0", "1", "2", "5"}
IntOf(h) == CASE h = "0" -> 0 [] h = "1" -> 1 [] h = "2" -> 2 [] h = "5" -> 5

\* Mutant of RetryAfterSecs: the header is ignored.
RetryAfterSecs_default(h) == 5

\* lines 634-637: int(getheader("Retry-After", 5)), 5 when that raises.
RetryAfterSecs(h) ==
    IF h = NoHeader THEN 5 ELSE IF IsInt(h) THEN IntOf(h) ELSE 5

\* Mutant of RedirectURL: a header the response does not carry is asked for.
RedirectURL_wrongHeader(rs) == NoHeader

\* read() line 626: URL = self.resp.getheader('Location',None)
RedirectURL(rs) == rs.location

\* VOFile.read, one activation: close the request if it is open, then
\* dispatch on the status.  again = TRUE stands for the recursive call
\* "return self.read(size)" that follows a redirect or a 503.
read(w, size, r, flt) ==
    LET c  == IF ~w.f.closed
              THEN close(w, CloseCodes, r, flt)
              ELSE [w |-> w, out |-> Return("None", 0, <<>>)]
        v  == c.w
        rs == v.f.resp
        st == rs.status
    IN  IF c.out.kind = "raise"
        THEN [w |-> v, out |-> c.out, again |-> FALSE]
        ELSE IF ~rs.obj
        THEN [w |-> v, out |-> Raise("AttributeError", "", 0, "", <<>>), again |-> FALSE]
        ELSE IF st = 416
        THEN [w |-> v, out |-> Return("bytes", 0, <<>>), again |-> FALSE]
        ELSE IF st = 200
        THEN [w |-> [v EXCEPT !.f.resp.body = Drop(@, size)],
              out |-> Return("bytes", 0, Take(rs.body, size)), again |-> FALSE]
        ELSE IF st = 206
        THEN [w |-> [v EXCEPT !.f.resp.body = Drop(@, size),
                              !.f.fpos = @ + Len(Take(rs.body, size))],
              out |-> Return("bytes", 0, Take(rs.body, size)), again |-> FALSE]
        ELSE IF st = 404
        THEN [w |-> v, out |-> Raise("IOError", "ENFILE", 0, "", <<>>), again |-> FALSE]
        ELSE IF st = 303 \/ st = 302
        THEN IF RedirectURL(rs) = NoHeader \/ RedirectURL(rs) = ""
             THEN [w |-> v, out |-> Raise("IOError", "ENOENT", 0, v.f.url, <<>>),
                   again |-> FALSE]
             ELSE [w |-> open(v, RedirectURL(rs), "GET"), out |-> Pending, again |-> TRUE]
        ELSE IF st = 503
        THEN LET ras == RetryAfterSecs(rs.retryAfter)
                 slept == [v EXCEPT !.log = Append(@, SleepEv(ras, v.f.url))]
             IN  [w |-> open(slept, v.f.url, "GET"), out |-> Pending, again |-> TRUE]
        ELSE [w |-> v, out |-> Raise("IOError", "HTTP", st, v.f.url, <<>>), again |-> FALSE]

(* ------------------------------ actions -------------------------------- *)

\* The call made: its name and arguments; got counts the responses read
\* since the call began.
Call(name) == [name |-> name, size |-> None, buf |-> <<>>, codes |-> {}, got |-> 0]

\* The world at the start of a client operation: no VOFile yet.
Fresh == [f |-> NoFile, wire |-> <<>>, conns |-> {}, log |-> <<>>, written |-> <<>>]

\* The responses an exchange can draw: one, unused, when none is read.
Drawn(reads) == IF reads THEN Responses ELSE {InitResp}

Init ==
    /\ f = NoFile
    /\ wire = <<>>
    /\ conns = {}
    /\ log = <<>>
    /\ written = <<>>
    /\ call = Call("none")
    /\ pc = "idle"
    /\ result = Pending
    /\ cp = NoCopy
    /\ pg = NoPage
    /\ node = NoNode
    /\ nop = NoOp
    /\ ux = NoFix
    /\ Rest

\* No operation is under way and no VOFile is held.
Quiet == pc = "idle" /\ call.name = "none"

\* The caller holds a VOFile it constructed.
Held == f.exists /\ call.name \in {"init", "write", "close", "read"}

\* The caller is done with the last operation and drops its VOFile.
Forget ==
    /\ UNCHANGED xvars
    /\ pc = "idle"
    /\ call.name # "none"
    /\ Commit(Fresh)
    /\ call' = Call("none")
    /\ result' = Pending
    /\ pc' = "idle"
    /\ cp' = NoCopy

\* A caller constructs a VOFile.
VOFile_init(URL, method) ==
    /\ UNCHANGED xvars
    /\ Quiet
    /\ Commit(VOFile(Fresh, URL, method, None))
    /\ call' = Call("init")
    /\ result' = Pending
    /\ pc' = "idle"
    /\ UNCHANGED cp

VOFile_write(buf) ==
    /\ UNCHANGED xvars
    /\ pc = "idle"
    /\ Held
    /\ Len(written) < MaxWrites
    /\ LET x == write(World, buf)
       IN  /\ Commit(x.w)
           /\ result' = x.out
    /\ call' = [Call("write") EXCEPT !.buf = buf]
    /\ pc' = "idle"
    /\ UNCHANGED cp

VOFile_close(code) ==
    /\ UNCHANGED xvars
    /\ pc = "idle"
    /\ Held
    /\ f.closed \/ NResp(log) < MaxResp
    /\ \E r \in Drawn(~f.closed) :
         LET x == close(World, code, r, "ok")
         IN  /\ Commit(x.w)
             /\ result' = x.out
             /\ call' = [Call("close") EXCEPT !.codes = code,
                                               !.got = NResp(x.w.log) - NResp(log)]
    /\ pc' = "idle"
    /\ UNCHANGED cp

\* read(size) is called (pc = "idle"), or its recursive call runs (pc = "read").
VOFile_read(size) ==
    /\ UNCHANGED xvars
    /\ Held
    /\ \/ pc = "idle"
       \/ pc = "read" /\ size = call.size
    /\ f.closed \/ NResp(log) < MaxResp
    /\ \E r \in Drawn(~f.closed) :
         LET x == read(World, size, r, "ok")
         IN  /\ Commit(x.w)
             /\ result' = x.out
             /\ pc' = IF x.again THEN "read" ELSE "idle"
             /\ call' = [Call("read") EXCEPT
                            !.size = size,
                            !.codes = CloseCodes,
                            !.got = (IF pc = "read" THEN call.got ELSE 0)
                                    + NResp(x.w.log) - NResp(log)]
    /\ UNCHANGED cp

\* A client operation that is one request finished by close():
\* construct the VOFile, write the document if there is one, close.
Finish(name, URL, method, doc, hasDoc, code) ==
    /\ UNCHANGED xvars
    /\ Quiet
    /\ \E r \in Responses :
         LET w1 == VOFile(Fresh, URL, method, None)
             w2 == IF hasDoc THEN write(w1, doc).w ELSE w1
             x  == close(w2, code, r, "ok")
         IN  /\ Commit(x.w)
             /\ result' = IF name = "update" /\ x.out.kind = "return"
                          THEN Return("None", 0, <<>>)
                          ELSE x.out
             /\ call' = [Call(name) EXCEPT !.codes = code, !.got = 1]
    /\ pc' = "idle"
    /\ UNCHANGED cp

\* Client.mkdir: PUT of a fresh container node's document; returns f.close().
mkdir == Finish("mkdir", NodeURL, "PUT", NodeDoc, TRUE, CloseCodes)

\* Client.delete: open with O_TRUNC, that is DELETE; returns close().
delete == Finish("delete", NodeURL, "DELETE", <<>>, FALSE, CloseCodes)

\* Client.status: HEAD with view=data; returns close(code=[200,303,302]).
status == Finish("status", NodeURL, "HEAD", <<>>, FALSE, StatusCodes)

\* Client.update: POST of the node's document; close(); returns None.
update == Finish("update", NodeURL, "POST", NodeDoc, TRUE, CloseCodes)

(* -------------------------------- copy --------------------------------- *)

\* The responses that end an exchange at once: no redirect, no 503.
FinalResponses ==
    {r \in Responses : r.status \notin {302, 303, 503} /\ (r.status \in {200, 206} => r.body = <<>>)}

\* The responses the server gives to the upload's PUT.
PutResponses ==
    FinalResponses \cup {Resp(503, NoHeader, "2", <<>>), Resp(303, AltURL, NoHeader, <<>>)}

\* A node's MD5 property: absent, present with no text (None), or a digest.
Absent  == <<"<absent>">>
NullMD5 == <<"<None>">>

\* copy() lines 710, 712: the MD5 taken when the node has none, the MD5 of
\* the empty string.
DefaultMD5 == <<"d41d8cd98f00b204e9800998ecf8427e">>

\* hashlib.md5: the digest of the bytes fed, a different value for every
\* different string; that of the empty string is the RFC's.
hexdigest(acc) == IF acc = <<>> THEN <<"d41d8cd98f00b204e9800998ecf8427e">> ELSE <<"md5">> \o acc

\* Mutant of md5_update: the accumulator keeps the last buffer only.
md5_update_last(acc, buf) == buf

\* copy() line 704: md5.update(buf)
md5_update(acc, buf) == acc \o buf

\* The node the server describes: its length and MD5 properties.
Node(length, md5) == [length |-> length, md5 |-> md5]

\* Client.getNode with limit=0: GET of the node's URL, the response parsed
\* into a Node.  r is the response and nd the node it describes.  The VOFile
\* is getNode's own: the caller's VOFile and its wire are left as they were.
getNode(w, r, nd) ==
    LET x == read(VOFile([w EXCEPT !.f = NoFile], NodeURL, "GET", None), None, r, "ok")
    IN  [w |-> [x.w EXCEPT !.f = w.f, !.wire = w.wire, !.written = w.written],
         out |-> x.out, node |-> nd]

\* copy() lines 710, 712: props.get('MD5', default)
props_get(stored, default) == IF stored = Absent THEN default ELSE stored

\* copy() lines 714-722: the verdict.
copy_verdict(sendMD5, checkMD5, digest, destSize, srcSize) ==
    IF sendMD5
    THEN IF checkMD5 # digest
         THEN Raise("OSError", "EIO", 0, "src", <<"MD5s don't match">>)
         ELSE Return("digest", 0, digest)
    ELSE IF destSize # srcSize
         THEN Raise("IOError", "EIO", 0, "src", <<"sizes don't match">>)
         ELSE Return("int", destSize, <<>>)

CopyCall(w) == [Call("copy") EXCEPT !.size = BUFSIZE, !.codes = CloseCodes, !.got = NResp(w.log)]

\* copy() lines 684-696, an upload: the size of the local file is taken, the
\* file is opened, and the remote stream is opened with that size declared.
\* content is what the file holds when it is read; srcSize, what lstat said.
copy_upload(sendMD5) ==
    /\ UNCHANGED xvars
    /\ Quiet
    /\ \E content \in Contents, srcSize \in 0..MaxLen :
         LET w == VOFile(Fresh, DataURL, "PUT", srcSize)
         IN  /\ Commit(w)
             /\ cp' = [NoCopy EXCEPT !.dir = "up", !.sendMD5 = sendMD5, !.srcSize = srcSize,
                                     !.content = content, !.src = content, !.stage = "loop"]
             /\ call' = CopyCall(w)
    /\ pc' = "copy"
    /\ result' = Pending

\* copy() lines 684-696, a download: the node is fetched for its length, the
\* remote stream is opened with view=data, the local file is opened.
copy_download(sendMD5) ==
    /\ UNCHANGED xvars
    /\ Quiet
    /\ \E r \in FinalResponses, length \in 0..MaxLen :
         LET g == getNode(Fresh, r, Node(length, Absent))
             w == VOFile(g.w, ViewURL, "GET", None)
             c == [NoCopy EXCEPT !.dir = "down", !.sendMD5 = sendMD5, !.srcSize = length]
         IN  IF g.out.kind = "raise"
             THEN /\ Commit(g.w)
                  /\ cp' = [c EXCEPT !.stage = "failed"]
                  /\ call' = CopyCall(g.w)
                  /\ pc' = "idle"
                  /\ result' = g.out
             ELSE /\ Commit(w)
                  /\ cp' = [c EXCEPT !.stage = "loop"]
                  /\ call' = CopyCall(w)
                  /\ pc' = "copy"
                  /\ result' = Pending

\* copy() lines 697-705: one trip around the loop.  The upload reads the
\* local file and writes the VOFile; the download reads the VOFile, which
\* answers the first read with the server's response, through redirects and
\* 503s, and writes the local file.
copy_loop ==
    /\ UNCHANGED xvars
    /\ pc = "copy"
    /\ cp.stage = "loop"
    /\ IF cp.dir = "up"
       THEN LET buf == Take(cp.src, BUFSIZE)
                x   == write(World, buf)
            IN  IF Len(buf) = 0
                THEN /\ cp' = [cp EXCEPT !.stage = "close"]
                     /\ UNCHANGED <<f, wire, conns, log, written, call, pc, result>>
                ELSE /\ Commit(x.w)
                     /\ cp' = [cp EXCEPT !.src = Drop(@, BUFSIZE),
                                         !.md5 = md5_update(@, buf),
                                         !.destSize = @ + Len(buf)]
                     /\ UNCHANGED <<call, pc, result>>
       ELSE /\ f.closed \/ NResp(log) < MaxResp
            /\ \E r \in Drawn(~f.closed) :
                 LET x   == read(World, BUFSIZE, r, "ok")
                     buf == x.out.data
                     xf  == IF f.closed THEN cp.xfer ELSE r.status
                 IN  /\ Commit(x.w)
                     /\ call' = CopyCall(x.w)
                     /\ IF x.again
                        THEN /\ cp' = [cp EXCEPT !.xfer = xf]
                             /\ UNCHANGED <<pc, result>>
                        ELSE IF x.out.kind = "raise"
                        THEN /\ cp' = [cp EXCEPT !.stage = "failed", !.xfer = xf]
                             /\ pc' = "idle"
                             /\ result' = x.out
                        ELSE IF Len(buf) = 0
                        THEN /\ cp' = [cp EXCEPT !.stage = "close", !.xfer = xf]
                             /\ UNCHANGED <<pc, result>>
                        ELSE /\ cp' = [cp EXCEPT !.out = @ \o buf,
                                                 !.md5 = md5_update(@, buf),
                                                 !.destSize = @ + Len(buf),
                                                 !.xfer = xf]
                             /\ UNCHANGED <<pc, result>>

\* copy() lines 706-707: fout.close(); fin.close().  The remote handle is
\* the VOFile; the local one cannot fail here.
copy_close ==
    /\ UNCHANGED xvars
    /\ pc = "copy"
    /\ cp.stage = "close"
    /\ \E r \in (IF f.closed THEN {InitResp} ELSE PutResponses) :
         LET x == close(World, CloseCodes, r, "ok")
         IN  /\ Commit(x.w)
             /\ call' = CopyCall(x.w)
             /\ IF x.out.kind = "raise"
                THEN /\ cp' = [cp EXCEPT !.stage = "failed", !.xfer = r.status]
                     /\ pc' = "idle"
                     /\ result' = x.out
                ELSE /\ cp' = [cp EXCEPT !.stage = "check",
                                         !.xfer = IF f.closed THEN @ ELSE r.status]
                     /\ UNCHANGED <<pc, result>>

\* The MD5 properties the fetched node may carry: none, one without text,
\* the digest of what was copied, and digests of something else.
StoredMD5s(acc) == {Absent, NullMD5, hexdigest(acc), hexdigest(<<"b">>), hexdigest(<<>>)}

\* copy() lines 709-722: the node is fetched, for its MD5 property, whatever
\* sendMD5 is; then the verdict.
copy_check ==
    /\ UNCHANGED xvars
    /\ pc = "copy"
    /\ cp.stage = "check"
    /\ \E r \in FinalResponses :
       \E stored \in (IF r.status \in {200, 206} THEN StoredMD5s(cp.md5) ELSE {Absent}) :
         LET g == getNode(World, r, Node(0, stored))
             checkMD5 == props_get(g.node.md5, DefaultMD5)
         IN  /\ Commit(g.w)
             /\ call' = CopyCall(g.w)
             /\ pc' = "idle"
             /\ IF g.out.kind = "raise"
                THEN /\ cp' = [cp EXCEPT !.stage = "fetchFailed"]
                     /\ result' = g.out
                ELSE /\ cp' = [cp EXCEPT !.stage = "done", !.stored = stored,
                                         !.checkMD5 = checkMD5]
                     /\ result' = copy_verdict(cp.sendMD5, checkMD5, hexdigest(cp.md5),
                                               cp.destSize, cp.srcSize)

Next ==
    \/ Forget
    \/ \E m \in {"GET", "PUT"} : VOFile_init(NodeURL, m)
    \/ \E b \in Bufs : VOFile_write(b)
    \/ VOFile_close(CloseCodes)
    \/ \E s \in {None, 2} : VOFile_read(s)
    \/ mkdir
    \/ delete
    \/ status
    \/ update
    \/ \E m \in BOOLEAN : copy_upload(m)
    \/ \E m \in BOOLEAN : copy_download(m)
    \/ copy_loop
    \/ copy_close
    \/ copy_check

Spec == Init /\ [][Next]_vars

(* --------------------- getNode: loading the children ------------------- *)

\* The URIs of the children a container can have.
Children == {"vos://h/a/c1", "vos://h/a/c2", "vos://h/a/c3"}

RECURSIVE PagesUpTo(_)
PagesUpTo(n) ==
    IF n = 0 THEN {<<>>}
    ELSE LET shorter == PagesUpTo(n - 1)
         IN  shorter \cup {Append(s, c) : s \in {t \in shorter : Len(t) = n - 1}, c \in Children}

\* A page: the node elements of the document's nodes element, in order.
Pages == PagesUpTo(MaxPageLen)

\* Mutant of PageURL: the continuation is left out of the query string.
PageURL_first(nextURI) == NodeURL

\* getNodeURL with nextURI: the query string carries uri=<nextURI>.
PageURL(nextURI) ==
    CASE nextURI = NoURI -> NodeURL
      [] nextURI = "vos://h/a/c1" -> "https://host/vospace/nodes/a?uri=vos://h/a/c1"
      [] nextURI = "vos://h/a/c2" -> "https://host/vospace/nodes/a?uri=vos://h/a/c2"
      [] nextURI = "vos://h/a/c3" -> "https://host/vospace/nodes/a?uri=vos://h/a/c3"

\* getNode() lines 772-773: the page is fetched with a VOFile of its own and
\* parsed, which reads it to its end.
getChildrenXMLDoc(w, nextURI, r) ==
    LET x == read(VOFile([w EXCEPT !.f = NoFile], PageURL(nextURI), "GET", None), None, r, "ok")
    IN  [w |-> [x.w EXCEPT !.f = w.f, !.wire = w.wire, !.written = w.written], out |-> x.out]

\* getNode() lines 774-780: each child of the page whose uri is not nextURI
\* is added, and nextURI becomes its uri at once.
RECURSIVE addChildren(_, _, _, _)
addChildren(nodeList, nextURI, again, page) ==
    IF page = <<>>
    THEN [nodeList |-> nodeList, nextURI |-> nextURI, again |-> again]
    ELSE IF Head(page) # nextURI
    THEN addChildren(Append(nodeList, Head(page)), Head(page), TRUE, Tail(page))
    ELSE addChildren(nodeList, nextURI, again, Tail(page))

\* getNode() lines 757-769: the node is fetched and parsed; a container asked
\* for with limit>0 starts loading its children with an empty list.
getNode_begin(limit) ==
    /\ UNCHANGED <<node, nop, ux, yvars>>
    /\ Quiet
    /\ pg.stage = ""
    /\ \E r \in FinalResponses, dir \in BOOLEAN :
         LET g == getNode(Fresh, r, Node(0, Absent))
             p == [NoPage EXCEPT !.limit = limit, !.isdir = dir]
         IN  /\ Commit(g.w)
             /\ call' = [Call("getNode") EXCEPT !.got = NResp(g.w.log)]
             /\ IF g.out.kind = "raise"
                THEN /\ pg' = [p EXCEPT !.stage = "failed"]
                     /\ pc' = "idle"
                     /\ result' = g.out
                ELSE IF dir /\ limit > 0
                THEN /\ pg' = [p EXCEPT !.stage = "loop"]
                     /\ pc' = "getNode"
                     /\ result' = Pending
                ELSE /\ pg' = [p EXCEPT !.stage = "done"]
                     /\ pc' = "idle"
                     /\ result' = Return("Node", 0, <<>>)
    /\ UNCHANGED cp

\* getNode() lines 770-781: one trip around the while loop; the loop ends,
\* and getNode returns the node, when the page added no child.
getNode_page ==
    /\ UNCHANGED <<node, nop, ux, yvars>>
    /\ pc = "getNode"
    /\ pg.stage = "loop"
    /\ Len(pg.served) < MaxPages
    /\ \E r \in FinalResponses, page \in Pages :
         LET x == getChildrenXMLDoc(World, pg.nextURI, r)
             a == addChildren(pg.nodeList, pg.nextURI, FALSE, page)
         IN  /\ Commit(x.w)
             /\ call' = [Call("getNode") EXCEPT !.got = NResp(x.w.log)]
             /\ IF x.out.kind = "raise"
                THEN /\ pg' = [pg EXCEPT !.stage = "failed"]
                     /\ pc' = "idle"
                     /\ result' = x.out
                ELSE /\ pg' = [pg EXCEPT !.nodeList = a.nodeList,
                                         !.nextURI = a.nextURI,
                                         !.served = Append(@, page),
                                         !.stage = IF a.again THEN "loop" ELSE "done"]
                     /\ pc' = IF a.again THEN "getNode" ELSE "idle"
                     /\ result' = IF a.again THEN Pending ELSE Return("Node", 0, <<>>)
    /\ UNCHANGED cp

\* The caller is done with the node getNode returned.
getNode_drop ==
    /\ UNCHANGED <<node, nop, ux, yvars>>
    /\ pc = "idle"
    /\ call.name = "getNode"
    /\ Commit(Fresh)
    /\ call' = Call("none")
    /\ result' = Pending
    /\ pc' = "idle"
    /\ pg' = NoPage
    /\ UNCHANGED cp

NextPage ==
    \/ \E limit \in {0, 1} : getNode_begin(limit)
    \/ getNode_page
    \/ getNode_drop

SpecPage == Init /\ [][NextPage]_vars

(* -------------------------------- Node --------------------------------- *)

\* stat's mode bits (lines 213-216).
S_IFDIR == 16384
S_IFREG == 32768
S_IRUSR == 256
S_IWUSR == 128
S_IXUSR == 64
S_IRGRP == 32
S_IWGRP == 16
S_IXGRP == 8
S_IROTH == 4
S_IWOTH == 2
S_IXOTH == 1

\* mode & bit, for a bit that is a power of two.
HasBit(mode, bit) == (mode \div bit) % 2 = 1

\* A property element: the name after '#' in its uri, its text, xsi:nil.
Prop(name, text) == [name |-> name, text |-> text, nil |-> FALSE]

\* dict.get(key, default)
Get(props, key, default) == IF props[key] = missing THEN default ELSE props[key]

\* All property elements of the document, in document order.
RECURSIVE AllProps(_)
AllProps(xml) == IF xml = <<>> THEN <<>> ELSE Head(xml) \o AllProps(Tail(xml))

\* Node.setProps over every properties element (update() lines 179-180):
\* each property element sets props[name] to its text, the last one wins.
setProps(props, xml) ==
    LET all == AllProps(xml)
    IN  [k \in Keys |->
           LET at == {j \in 1..Len(all) : all[j].name = k}
           IN  IF at = {} THEN props[k]
               ELSE all[CHOOSE j \in at : \A i \in at : i <= j].text]

\* The dates time.strptime(sdate[0:-4], '%Y-%m-%dT%H:%M:%S') accepts.
ValidDates == {"2012-01-01T00:00:00.000", "2013-06-30T12:00:00.000"}

\* Mutant of st_mode: a public node is writable by others.
st_mode_otherWrite(type, props) ==
    (IF type = "vos:ContainerNode" THEN S_IFDIR ELSE S_IFREG)
    + S_IRUSR + S_IWUSR + S_IXUSR
    + (IF Get(props, "groupwrite", "NONE") # "NONE" THEN S_IWGRP ELSE 0)
    + (IF Get(props, "groupread", "NONE") # "NONE" THEN S_IRGRP + S_IXGRP ELSE 0)
    + (IF Get(props, "ispublic", "false") = "true" THEN S_IROTH + S_IWOTH + S_IXOTH ELSE 0)

\* setattr() lines 235-259: the flags or-ed together; every flag is or-ed
\* in at most once, so the sum is the or.
st_mode(type, props) ==
    (IF type = "vos:ContainerNode" THEN S_IFDIR ELSE S_IFREG)
    + S_IRUSR + S_IWUSR + S_IXUSR
    + (IF Get(props, "groupwrite", "NONE") # "NONE" THEN S_IWGRP ELSE 0)
    + (IF Get(props, "groupread", "NONE") # "NONE" THEN S_IRGRP + S_IXGRP ELSE 0)
    + (IF Get(props, "ispublic", "false") = "true" THEN S_IROTH + S_IXOTH ELSE 0)

\* Node.setattr: self.attr is emptied; a date that strptime rejects raises
\* ValueError before st_mode is computed.
setattr(n) ==
    LET sdate == Get(n.props, "date", null)
    IN  IF sdate \notin {null, ""} /\ sdate \notin ValidDates
        THEN [n |-> [n EXCEPT !.attr = [set |-> FALSE, st_mode |-> 0]],
              out |-> Raise("ValueError", "", 0, "", <<>>)]
        ELSE [n |-> [n EXCEPT !.attr = [set |-> TRUE, st_mode |-> st_mode(n.type, n.props)]],
              out |-> Return("None", 0, <<>>)]

\* Node.update: the convenience fields are read again from the document.
updateNode(n) ==
    LET props == setProps(n.props, n.xml)
    IN  setattr([n EXCEPT !.props = props,
                          !.isPublic = (Get(props, "ispublic", "false") = "true"),
                          !.groupwrite = Get(props, "groupwrite", ""),
                          !.groupread = Get(props, "groupread", "")])

\* Node.__init__ on a parsed or locally created node element.
Node_init(type, xml) == updateNode([NoNode EXCEPT !.type = type, !.xml = xml])

\* changeProp() lines 309-319 on one properties element.
SetText(el, key, value) ==
    [j \in 1..Len(el) |->
        IF el[j].name # key THEN el[j]
        ELSE IF value = null THEN [el[j] EXCEPT !.nil = TRUE, !.text = ""]
        ELSE [el[j] EXCEPT !.text = value]]

\* changeProp() line 311: a property element named key was met.
changeProp_found(xml, key) ==
    \E j \in 1..Len(AllProps(xml)) : AllProps(xml)[j].name = key

\* Node.changeProp.  The property map is written only by the delete branch
\* (line 316); a new property goes under props, the loop variable, which is
\* the last properties element, and which is unbound when there is none.
changeProp(n, key, value) ==
    LET found == changeProp_found(n.xml, key)
        xml1  == [i \in 1..Len(n.xml) |-> SetText(n.xml[i], key, value)]
        n1    == [n EXCEPT !.xml = xml1,
                           !.props = IF found /\ value = null
                                     THEN [@ EXCEPT ![key] = null] ELSE @]
    IN  IF found \/ value = null
        THEN [n |-> n1, out |-> Return("int", IF found /\ value # null THEN 1 ELSE 0, <<>>)]
        ELSE IF n.xml = <<>>
        THEN [n |-> n, out |-> Raise("UnboundLocalError", "", 0, "", <<>>)]
        ELSE [n |-> [n EXCEPT !.xml[Len(n.xml)] = Append(@, Prop(key, value))],
              out |-> Return("int", 1, <<>>)]

\* Node.chwgrp, Node.chrgrp, Node.setPublic
chwgrp(n, group) == changeProp([n EXCEPT !.groupwrite = group], "groupwrite", group)
chrgrp(n, group) == changeProp([n EXCEPT !.groupread = group], "groupread", group)
setPublic(n, value) == changeProp(n, "ispublic", value)

\* Node.chmod: the three changes in turn, their returns added up.
chmod(n, mode) ==
    LET s1 == setPublic(n, IF HasBit(mode, S_IROTH) THEN "true" ELSE "false")
        s2 == chrgrp(s1.n, IF HasBit(mode, S_IRGRP) THEN s1.n.groupread ELSE "")
        s3 == chwgrp(s2.n, IF HasBit(mode, S_IWGRP) THEN s2.n.groupwrite ELSE "")
    IN  IF s1.out.kind = "raise" THEN s1
        ELSE IF s2.out.kind = "raise" THEN s2
        ELSE IF s3.out.kind = "raise" THEN s3
        ELSE [n |-> s3.n,
              out |-> Return(IF s1.out.n + s2.out.n + s3.out.n > 0 THEN "True" ELSE "False",
                             0, <<>>)]

\* str(node): the document, as the tokens the serialiser writes.  A text
\* that is None or empty is not written.
SerProp(p) ==
    <<"<property", p.name>> \o (IF p.nil THEN <<"xsi:nil">> ELSE <<>>)
    \o (IF p.text \in {null, ""} THEN <<"/>">> ELSE <<">", p.text, "</property>">>)
RECURSIVE SerProps(_)
SerProps(el) == IF el = <<>> THEN <<>> ELSE SerProp(Head(el)) \o SerProps(Tail(el))
RECURSIVE SerXML(_)
SerXML(xml) ==
    IF xml = <<>> THEN <<>>
    ELSE (<<"<properties>">> \o SerProps(Head(xml)) \o <<"</properties>">>) \o SerXML(Tail(xml))
Node_str(n) == <<"<node", n.type, ">">> \o SerXML(n.xml) \o <<"</node>">>

\* update() lines 906-908, addProps() lines 885-887: POST of str(node).
postNode(w, n, r) ==
    LET w1 == VOFile([w EXCEPT !.f = NoFile], NodeURL, "POST", None)
        w2 == write(w1, Node_str(n)).w
    IN  close(w2, CloseCodes, r, "ok")

\* The keys in the order the property map yields them.
KeySeq == <<"date", "groupread", "groupwrite", "ispublic">>

\* Mutant of addProps_unchanged: a tombstone that is stored as one counts too.
addProps_unchanged_null(stored, props, k) ==
    stored[k] # missing /\ props[k] # missing /\ stored[k] = props[k]

\* addProps() line 869: the entry is on the server with the same value.
addProps_unchanged(stored, props, k) ==
    stored[k] # missing /\ props[k] # missing /\ stored[k] = props[k] /\ props[k] # null

\* addProps() lines 874-882: the properties element built from the map.
RECURSIVE addProps_properties(_, _)
addProps_properties(props, keys) ==
    IF keys = <<>> THEN <<>>
    ELSE LET k == Head(keys)
             rest == addProps_properties(props, Tail(keys))
         IN  IF props[k] = missing THEN rest
             ELSE IF props[k] = null
             THEN <<[name |-> k, text |-> "", nil |-> TRUE]>> \o rest
             ELSE <<Prop(k, props[k])>> \o rest

\* Client.addProps lines 868-883: entries stored unchanged leave the map,
\* the document's properties elements are replaced by one built from it.
addProps_node(n, stored) ==
    LET props == [k \in Keys |-> IF addProps_unchanged(stored, n.props, k)
                                 THEN missing ELSE n.props[k]]
    IN  [n EXCEPT !.props = props, !.xml = <<addProps_properties(props, KeySeq)>>]

\* The documents a node is parsed or created from: one properties element
\* with any of the four properties, none at all, or two of them.
OneProperties ==
    {  (IF ip = missing THEN <<>> ELSE <<Prop("ispublic", ip)>>)
    \o (IF gr = missing THEN <<>> ELSE <<Prop("groupread", gr)>>)
    \o (IF gw = missing THEN <<>> ELSE <<Prop("groupwrite", gw)>>)
    \o (IF dt = missing THEN <<>> ELSE <<Prop("date", dt)>>)
       : ip \in {missing, "true", "false"}, gr \in {missing, "X", "NONE"},
         gw \in {missing, "X"}, dt \in {missing, "2012-01-01T00:00:00.000"} }

Documents ==
    {<<el>> : el \in OneProperties}
    \cup {<<>>}
    \cup {<<<<Prop("ispublic", "false"), Prop("groupread", "X")>>, <<Prop("groupwrite", "X")>>>>,
          <<<<Prop("groupread", "X")>>, <<>>>>,
          <<<<Prop("groupread", null), Prop("ispublic", "false")>>>>}

\* The property maps of the node the server has stored.
StoredProps ==
    {setProps(NoNode.props, d) :
        d \in {<<>>,
               <<<<Prop("ispublic", "false"), Prop("groupread", "X"), Prop("groupwrite", "X")>>>>,
               <<<<Prop("ispublic", "true"), Prop("groupread", "Y")>>>>,
               <<<<Prop("groupread", null), Prop("date", "2012-01-01T00:00:00.000")>>>>}}

\* A caller holds a node, parsed from a document or created locally.
InitNode ==
    /\ f = NoFile
    /\ wire = <<>>
    /\ conns = {}
    /\ log = <<>>
    /\ written = <<>>
    /\ call = Call("none")
    /\ pc = "idle"
    /\ result = Pending
    /\ cp = NoCopy
    /\ pg = NoPage
    /\ ux = NoFix
    /\ Rest
    /\ \E type \in {"vos:DataNode", "vos:ContainerNode"}, xml \in Documents :
         /\ node = Node_init(type, xml).n
         /\ nop = [NoOp EXCEPT !.start = Node_init(type, xml).n]

\* An operation made on the node, as hist keeps it.
Op(name, key, value, mode) == [name |-> name, key |-> key, value |-> value, mode |-> mode]

\* A call of a Node method: x is what the method's operator gave.
NodeStep(op, x) ==
    /\ Len(nop.hist) < MaxNodeOps
    /\ node' = x.n
    /\ result' = x.out
    /\ nop' = [nop EXCEPT !.hist = Append(@, op), !.flushed = FALSE, !.posted = <<>>]
    /\ UNCHANGED <<f, wire, conns, log, written, call, pc, cp, pg, ux, yvars>>

Node_changeProp(key, value) == NodeStep(Op("changeProp", key, value, 0), changeProp(node, key, value))
Node_chmod(mode) == NodeStep(Op("chmod", "", "", mode), chmod(node, mode))
Node_chrgrp(group) == NodeStep(Op("chrgrp", "groupread", group, 0), chrgrp(node, group))
Node_chwgrp(group) == NodeStep(Op("chwgrp", "groupwrite", group, 0), chwgrp(node, group))
Node_setPublic(value) == NodeStep(Op("setPublic", "ispublic", value, 0), setPublic(node, value))
Node_update == NodeStep(Op("update", "", "", 0), updateNode(node))

\* The responses the server gives to a flush and to its fetch: accepted,
\* or refused.
FlushResponses ==
    {Resp(200, NoHeader, NoHeader, <<>>), Resp(404, NoHeader, NoHeader, <<"e">>)}

\* Client.update(node): the node is posted as it is; returns None.
Client_update ==
    /\ Len(nop.hist) < MaxNodeOps
    /\ \E r \in FlushResponses :
         LET x == postNode(Fresh, node, r)
         IN  /\ Commit(x.w)
             /\ result' = IF x.out.kind = "return" THEN Return("None", 0, <<>>) ELSE x.out
    /\ nop' = [nop EXCEPT !.hist = Append(@, Op("Client.update", "", "", 0)),
                          !.flushed = TRUE, !.posted = node.xml]
    /\ UNCHANGED <<node, call, pc, cp, pg, ux, yvars>>

\* Client.addProps(node): the stored node is fetched; when that raises,
\* nothing else happens; otherwise the node is cut down and posted.
Client_addProps ==
    /\ Len(nop.hist) < MaxNodeOps
    /\ \E r1 \in FlushResponses, stored \in StoredProps, r2 \in FlushResponses :
         LET g  == getNode(Fresh, r1, Node(0, Absent))
             n1 == addProps_node(node, stored)
             x  == postNode(g.w, n1, r2)
             h  == Append(nop.hist, Op("addProps", "", "", 0))
         IN  IF g.out.kind = "raise"
             THEN /\ Commit(g.w)
                  /\ result' = g.out
                  /\ node' = node
                  /\ nop' = [nop EXCEPT !.hist = h, !.flushed = FALSE, !.posted = <<>>]
             ELSE /\ Commit(x.w)
                  /\ result' = IF x.out.kind = "return" THEN Return("None", 0, <<>>) ELSE x.out
                  /\ node' = n1
                  /\ nop' = [nop EXCEPT !.hist = h, !.stored = stored,
                                        !.flushed = TRUE, !.posted = n1.xml]
    /\ UNCHANGED <<call, pc, cp, pg, ux, yvars>>

\* The changeProp calls a caller makes: a tombstone, an empty text, a value,
\* and for date a well-formed and an ill-formed one.
ChangeArgs ==
    {<<"ispublic", null>>, <<"ispublic", "true">>,
     <<"groupread", null>>, <<"groupread", "Y">>, <<"groupread", "X">>,
     <<"groupwrite", null>>, <<"groupwrite", "">>,
     <<"date", "2013-06-30T12:00:00.000">>, <<"date", "yesterday">>}

NextNode ==
    \/ \E a \in ChangeArgs : Node_changeProp(a[1], a[2])
    \/ \E mode \in {448, 452, 488, 508} : Node_chmod(mode)
    \/ Node_chrgrp("Y")
    \/ Node_chwgrp("Y")
    \/ \E value \in {"true", "false"} : Node_setPublic(value)
    \/ Node_update
    \/ Client_update
    \/ Client_addProps

SpecNode == InitNode /\ [][NextNode]_vars

(* ------------------------------- fixURI -------------------------------- *)

\* A string is the sequence of its characters.  The default server name is
\* kept as one token; it holds no '/'.
VOSpaceServer == <<"cadc.nrc.ca!vospace">>

\* The configured root node, which fixURI puts before a URI without "vos:".
rootNode == <<"v", "o", "s", ":", "/", "/", "h", "/", "r">>

\* group() of a regex group that did not take part in the match.
NoGroup == <<"<None>">>

\* [a-zA-Z] among the characters in use.
Letters == {"v", "o", "s", "h", "r", "a"}

\* The characters the expression of line 739 lets through: \w and the
\* punctuation it lists.
NameChars ==
    Letters \cup {"_", "-", "(", ")", "=", "+", "!", ",", ";", ":", "@", "&", "*", "$", ".", "~"}

\* The length of the longest prefix of s made of characters in set.
RECURSIVE Span(_, _)
Span(s, set) == IF s # <<>> /\ Head(s) \in set THEN 1 + Span(Tail(s), set) ELSE 0

\* The length of the longest prefix of s without a '/'.
RECURSIVE SpanToSlash(_)
SpanToSlash(s) == IF s # <<>> /\ Head(s) # "/" THEN 1 + SpanToSlash(Tail(s)) ELSE 0

\* urlparse.__init__: "(^(?P<scheme>[a-zA-Z]*):)?(//(?P<netloc>[^/]*))?(?P<path>/?.*)?"
urlparse(url) ==
    LET n         == Span(url, Letters)
        hasScheme == n < Len(url) /\ url[n + 1] = ":"
        r1        == IF hasScheme THEN SubSeq(url, n + 2, Len(url)) ELSE url
        hasNetloc == Len(r1) >= 2 /\ r1[1] = "/" /\ r1[2] = "/"
        r2        == SubSeq(r1, 3, Len(r1))
        k         == SpanToSlash(r2)
    IN  [scheme |-> IF hasScheme THEN SubSeq(url, 1, n) ELSE NoGroup,
         netloc |-> IF hasNetloc THEN SubSeq(r2, 1, k) ELSE NoGroup,
         path   |-> IF hasNetloc THEN SubSeq(r2, k + 1, Len(r2)) ELSE r1]

\* os.path.basename: what follows the last '/'.
basename(path) ==
    LET at == {i \in 1..Len(path) : path[i] = "/"}
    IN  IF at = {} THEN path
        ELSE SubSeq(path, (CHOOSE i \in at : \A j \in at : j <= i) + 1, Len(path))

\* str.split('/')
RECURSIVE split(_)
split(str) ==
    LET n == SpanToSlash(str)
    IN  IF n = Len(str) THEN <<str>>
        ELSE <<SubSeq(str, 1, n)>> \o split(SubSeq(str, n + 2, Len(str)))

\* '/'.join(comps)
RECURSIVE join(_)
join(comps) ==
    IF comps = <<>> THEN <<>>
    ELSE IF Len(comps) = 1 THEN comps[1]
    ELSE comps[1] \o <<"/">> \o join(Tail(comps))

\* The loop of posixpath.normpath over the components.
RECURSIVE new_comps(_, _, _)
new_comps(comps, new, initial_slashes) ==
    IF comps = <<>> THEN new
    ELSE LET comp == Head(comps)
         IN  IF comp = <<>> \/ comp = <<".">>
             THEN new_comps(Tail(comps), new, initial_slashes)
             ELSE IF \/ comp # <<".", ".">>
                     \/ (initial_slashes = 0 /\ new = <<>>)
                     \/ (new # <<>> /\ new[Len(new)] = <<".", ".">>)
             THEN new_comps(Tail(comps), Append(new, comp), initial_slashes)
             ELSE IF new # <<>>
             THEN new_comps(Tail(comps), SubSeq(new, 1, Len(new) - 1), initial_slashes)
             ELSE new_comps(Tail(comps), new, initial_slashes)

\* os.path.normpath (posixpath)
normpath(path) ==
    IF path = <<>> THEN <<".">>
    ELSE LET initial_slashes ==
                 IF path[1] # "/" THEN 0
                 ELSE IF Len(path) >= 2 /\ path[2] = "/" /\ ~(Len(path) >= 3 /\ path[3] = "/")
                 THEN 2 ELSE 1
             joined == join(new_comps(split(path), <<>>, initial_slashes))
             whole  == (IF initial_slashes = 2 THEN <<"/", "/">>
                        ELSE IF initial_slashes = 1 THEN <<"/">> ELSE <<>>) \o joined
         IN  IF whole = <<>> THEN <<".">> ELSE whole

\* str.strip('/')
RECURSIVE lstrip(_)
lstrip(str) == IF str # <<>> /\ Head(str) = "/" THEN lstrip(Tail(str)) ELSE str
RECURSIVE rstrip(_)
rstrip(str) ==
    IF str # <<>> /\ str[Len(str)] = "/" THEN rstrip(SubSeq(str, 1, Len(str) - 1)) ELSE str
strip(str) == rstrip(lstrip(str))

\* Client.fixURI
fixURI(uri) ==
    LET full     == IF SubSeq(uri, 1, Min(4, Len(uri))) # <<"v", "o", "s", ":">>
                    THEN rootNode \o uri ELSE uri
        parts    == urlparse(full)
        filename == basename(parts.path)
        host     == IF parts.netloc = NoGroup \/ parts.netloc = <<>>
                    THEN VOSpaceServer ELSE parts.netloc
        path     == strip(normpath(parts.path))
    IN  IF parts.scheme # <<"v", "o", "s">>
        THEN Raise("IOError", "EINVAL", 0, "", <<"Invalid vospace URI">>)
        ELSE IF \E i \in 1..Len(filename) : filename[i] \notin NameChars
        THEN Raise("IOError", "EINVAL", 0, "", <<"Illegal vospace container name">>)
        ELSE Return("str", 0, parts.scheme \o <<":", "/", "/">> \o host \o <<"/">> \o path)

\* The paths tried: '/', '.', a letter and '#', a byte the names may not hold.
RECURSIVE PathsUpTo(_)
PathsUpTo(n) ==
    IF n = 0 THEN {<<>>}
    ELSE LET shorter == PathsUpTo(n - 1)
         IN  shorter \cup {Append(t, c) : t \in {t \in shorter : Len(t) = n - 1},
                                           c \in {"/", ".", "a", "#"}}

\* The URIs tried: with and without authority, and without scheme.
URIs ==
    {pre \o path : pre \in {<<"v", "o", "s", ":">>,
                            <<"v", "o", "s", ":", "/", "/", "h">>,
                            <<>>},
                   path \in PathsUpTo(MaxPath)}

InitURI ==
    /\ f = NoFile
    /\ wire = <<>>
    /\ conns = {}
    /\ log = <<>>
    /\ written = <<>>
    /\ call = Call("none")
    /\ pc = "idle"
    /\ result = Pending
    /\ cp = NoCopy
    /\ pg = NoPage
    /\ node = NoNode
    /\ nop = NoOp
    /\ Rest
    /\ \E uri \in URIs : ux = [NoFix EXCEPT !.uri = uri]

\* fixURI(uri) is called.
fixURI_once ==
    /\ ux.calls = 0
    /\ ux' = [ux EXCEPT !.once = fixURI(ux.uri), !.calls = 1]
    /\ UNCHANGED <<f, wire, conns, log, written, call, pc, result, cp, pg, node, nop, yvars>>

\* fixURI is called on what the first call returned.
fixURI_twice ==
    /\ ux.calls = 1
    /\ ux.once.kind = "return"
    /\ ux' = [ux EXCEPT !.twice = fixURI(ux.once.data), !.calls = 2]
    /\ UNCHANGED <<f, wire, conns, log, written, call, pc, result, cp, pg, node, nop, yvars>>

NextURI ==
    \/ fixURI_once
    \/ fixURI_twice

SpecURI == InitURI /\ [][NextURI]_vars

(* ----------------------------- Client.open ----------------------------- *)

\* The os.O_* flags Client.open tests (lines 844-850), and O_RDWR, which it
\* does not.
O_RDONLY == 0
O_WRONLY == 1
O_RDWR == 2
O_CREAT == 64
O_TRUNC == 512
O_APPEND == 1024

\* method=None (line 843).
NoMethod == "<None>"

\* Mutant of open_method: a mode no branch takes is read as O_RDONLY.
open_method_lenient(mode, head) ==
    LET m == IF mode.type = "str" THEN O_RDONLY ELSE mode.val
    IN  IF head THEN "HEAD"
        ELSE IF HasBit(m, O_WRONLY) \/ HasBit(m, O_CREAT) THEN "PUT"
        ELSE IF HasBit(m, O_APPEND) THEN "POST"
        ELSE IF HasBit(m, O_TRUNC) THEN "DELETE"
        ELSE "GET"

\* open() lines 839-853: a string mode is O_RDONLY; the first branch that
\* takes the mode gives the method; head=True gives HEAD whatever the mode.
open_method(mode, head) ==
    LET m == IF mode.type = "str" THEN O_RDONLY ELSE mode.val
    IN  IF head THEN "HEAD"
        ELSE IF m = O_RDONLY THEN "GET"
        ELSE IF HasBit(m, O_WRONLY) \/ HasBit(m, O_CREAT) THEN "PUT"
        ELSE IF HasBit(m, O_APPEND) THEN "POST"
        ELSE IF HasBit(m, O_TRUNC) THEN "DELETE"
        ELSE NoMethod

\* Client.getNodeURL: fixURI, which may raise, then the URL for the method.
\* The URIs in use all name the node a; the query's limit field is not
\* followed.
getNodeURL(uri, method, view, nextURI) ==
    LET fixed == fixURI(uri)
    IN  IF fixed.kind = "raise" THEN fixed
        ELSE Return("str", 0,
                    <<IF method = "PUT" THEN DataURL
                      ELSE IF nextURI # NoURI THEN PageURL(nextURI)
                      ELSE IF view # NoHeader THEN ViewURL
                      ELSE NodeURL>>)

\* Client.open: the method, the URL unless the caller gave one, the VOFile.
Client_open(w, uri, mode, view, head, URL, nextURI, size) ==
    LET method == open_method(mode, head)
        u == IF URL = NoHeader THEN getNodeURL(uri, method, view, nextURI)
             ELSE Return("str", 0, <<URL>>)
    IN  IF method = NoMethod
        THEN [w |-> w, out |-> Raise("IOError", "EOPNOTSUPP", 0, "", <<"Invalid access mode">>)]
        ELSE IF u.kind = "raise" THEN [w |-> w, out |-> u]
        ELSE [w |-> VOFile(w, u.data[1], method, size), out |-> Return("VOFile", 0, <<>>)]

\* Every combination of the flags, and the strings callers pass.
RECURSIVE FlagSums(_)
FlagSums(flags) ==
    IF flags = {} THEN {0}
    ELSE LET b == CHOOSE x \in flags : TRUE
             rest == FlagSums(flags \ {b})
         IN  rest \cup {b + n : n \in rest}

Modes ==
    {ModeArg("int", n) : n \in FlagSums({O_WRONLY, O_RDWR, O_CREAT, O_TRUNC, O_APPEND})}
    \cup {ModeArg("str", 0)}

\* The URIs open is called with: a node, a node on the default server, and
\* a name fixURI rejects.
OpenURIs ==
    {<<"v", "o", "s", ":", "/", "/", "h", "/", "a">>,
     <<"v", "o", "s", ":", "a">>,
     <<"v", "o", "s", ":", "/", "/", "h", "/", "a", "#">>}

\* A caller calls client.open(uri, mode, view=, head=, URL=).
Client_open_call(uri, mode, view, head, URL) ==
    /\ Quiet
    /\ opened.stage = ""
    /\ LET x == Client_open(Fresh, uri, mode, view, head, URL, NoURI, None)
       IN  /\ Commit(x.w)
           /\ result' = x.out
    /\ opened' = [stage |-> "done", mode |-> mode, head |-> head, uri |-> uri,
                  view |-> view, URL |-> URL]
    /\ call' = Call("open")
    /\ UNCHANGED <<pc, cp, pg, node, nop, ux, gconn, mv, made, server>>

\* The caller is done with the VOFile, or with the exception.
Client_open_drop ==
    /\ opened.stage = "done"
    /\ Commit(Fresh)
    /\ opened' = NoOpen
    /\ call' = Call("none")
    /\ result' = Pending
    /\ UNCHANGED <<pc, cp, pg, node, nop, ux, gconn, mv, made, server>>

NextOpen ==
    \/ \E uri \in OpenURIs, mode \in Modes, view \in {NoHeader, "data"}, head \in BOOLEAN,
          URL \in {NoHeader, AltURL} : Client_open_call(uri, mode, view, head, URL)
    \/ Client_open_drop

SpecOpen == Init /\ [][NextOpen]_vars

(* ----------------------- Connection.getConnection ---------------------- *)

\* Line 113: the seconds after which an HTTPException is raised again.
ConnectDeadline == 1200

\* What connection.connect() does: it returns, it raises an
\* httplib.HTTPException, or it raises another Exception (socket.error,
\* ssl.SSLError).
ConnectOutcomes == {"ok", "HTTPException", "Exception"}

\* Lines 107-123, one trip around "while True".  The HTTPException handler
\* calls logging.critical and then logggin.critical (line 112): the name
\* logggin is not defined, so the handler raises NameError before it looks
\* at the clock, and an exception raised in a handler leaves the try
\* statement.  go: the loop goes round again.
connect(g, outcome) ==
    LET g1 == [g EXCEPT !.attempts = @ + 1, !.last = outcome,
                        !.connected = (outcome = "ok")]
    IN  IF outcome = "ok"
        THEN [g |-> g1, out |-> Return("connection", 0, <<>>), go |-> FALSE]
        ELSE IF outcome = "HTTPException"
        THEN [g |-> g1, out |-> Raise("NameError", "", 0, "", <<"logggin">>), go |-> FALSE]
        ELSE [g |-> g1, go |-> FALSE,
              out |-> Raise("IOError", "ECONNREFUSED", 0, "", <<"VOSpace connection failed">>)]

\* getConnection(url) lines 88-106: the connection object for the scheme is
\* made (no I/O yet) and the clock is read.
getConnection_begin(scheme) ==
    /\ Quiet
    /\ gconn.stage = ""
    /\ gconn' = [gconn EXCEPT !.stage = "loop", !.scheme = scheme, !.timestart = gconn.now,
                              !.attempts = 0, !.connected = FALSE, !.last = ""]
    /\ call' = Call("getConnection")
    /\ result' = Pending
    /\ UNCHANGED <<f, wire, conns, log, written, pc, cp, pg, node, nop, ux,
                   opened, mv, made, server>>

\* connection.connect() is called and does one of the three things.
getConnection_connect(outcome) ==
    /\ gconn.stage = "loop"
    /\ LET x == connect(gconn, outcome)
       IN  /\ gconn' = [x.g EXCEPT !.stage = IF x.go THEN "loop" ELSE "done"]
           /\ result' = x.out
           /\ conns' = IF x.out.kind = "return" THEN conns \cup {1} ELSE conns
    /\ UNCHANGED <<f, wire, log, written, call, pc, cp, pg, node, nop, ux,
                   opened, mv, made, server>>

\* Time passes.
getConnection_tick ==
    /\ gconn.now < MaxClock
    /\ gconn' = [gconn EXCEPT !.now = @ + 1]
    /\ UNCHANGED <<f, wire, conns, log, written, call, pc, result, cp, pg, node, nop, ux,
                   opened, mv, made, server>>

\* The caller is done with the connection, or with the exception.
getConnection_drop ==
    /\ gconn.stage = "done"
    /\ gconn' = [NoConn EXCEPT !.now = gconn.now]
    /\ conns' = {}
    /\ call' = Call("none")
    /\ result' = Pending
    /\ UNCHANGED <<f, wire, log, written, pc, cp, pg, node, nop, ux,
                   opened, mv, made, server>>

NextConn ==
    \/ \E scheme \in {"http", "https"} : getConnection_begin(scheme)
    \/ \E outcome \in ConnectOutcomes : getConnection_connect(outcome)
    \/ getConnection_tick
    \/ getConnection_drop

SpecConn == Init /\ [][NextConn]_vars

(* ----------------------------- Client.move ----------------------------- *)

\* Client.VOTransfer (line 662).
VOTransfer == "https://host/vospace/synctrans"

\* ET.tostring(transfer), lines 819-824: the document as the tokens the
\* serialiser writes, the two URIs character by character.
transfer(target, direction) ==
    <<"<transfer>", "<target>">> \o target \o <<"</target>", "<direction>">> \o direction
    \o <<"</direction>", "<keepBytes>", "false", "</keepBytes>", "</transfer>">>

\* move() line 830-832: the return value.
move_return(st) == IF st = 200 THEN Return("True", 0, <<>>) ELSE Return("False", 0, <<>>)

\* move() lines 819-828: the two URIs are fixed, which may raise; the VOFile
\* is opened with O_APPEND on the transfer URL and the document is written.
move_begin(srcURI, destURI) ==
    /\ Quiet
    /\ mv.stage = ""
    /\ LET target == fixURI(srcURI)
           direction == fixURI(destURI)
           doc == transfer(target.data, direction.data)
           o == Client_open(Fresh, srcURI, ModeArg("int", O_APPEND), NoHeader, FALSE,
                            VOTransfer, NoURI, None)
           x == write(o.w, doc)
       IN  IF target.kind = "raise" \/ direction.kind = "raise"
           THEN /\ Commit(Fresh)
                /\ result' = IF target.kind = "raise" THEN target ELSE direction
                /\ mv' = [stage |-> "done", srcURI |-> srcURI, destURI |-> destURI, doc |-> <<>>]
                /\ pc' = "idle"
           ELSE /\ Commit(x.w)
                /\ result' = Pending
                /\ mv' = [stage |-> "read", srcURI |-> srcURI, destURI |-> destURI, doc |-> doc]
                /\ pc' = "move"
    /\ call' = Call("move")
    /\ UNCHANGED <<cp, pg, node, nop, ux, opened, gconn, made, server>>

\* move() lines 829-832: con.read(), one activation of it at a time, then
\* the test of con.resp.status.
move_read ==
    /\ pc = "move"
    /\ mv.stage = "read"
    /\ f.closed \/ NResp(log) < MaxResp
    /\ \E r \in Drawn(~f.closed) :
         LET x == read(World, None, r, "ok")
         IN  /\ Commit(x.w)
             /\ IF x.again
                THEN /\ UNCHANGED <<mv, pc, result>>
                ELSE /\ mv' = [mv EXCEPT !.stage = "done"]
                     /\ pc' = "idle"
                     /\ result' = IF x.out.kind = "raise" THEN x.out
                                  ELSE move_return(x.w.f.resp.status)
    /\ UNCHANGED <<call, cp, pg, node, nop, ux, opened, gconn, made, server>>

\* The caller has the answer.
move_drop ==
    /\ pc = "idle"
    /\ mv.stage = "done"
    /\ Commit(Fresh)
    /\ mv' = NoMove
    /\ call' = Call("none")
    /\ result' = Pending
    /\ UNCHANGED <<pc, cp, pg, node, nop, ux, opened, gconn, made, server>>

\* The URIs move is called with.
MoveURIs ==
    {<<"v", "o", "s", ":", "/", "/", "h", "/", "a">>,
     <<"v", "o", "s", ":", "a", "/", ".">>,
     <<"v", "o", "s", ":", "/", "/", "h", "/", "a", "#">>}

NextMove ==
    \/ \E srcURI \in MoveURIs, destURI \in MoveURIs : move_begin(srcURI, destURI)
    \/ move_read
    \/ move_drop

SpecMove == Init /\ [][NextMove]_vars

(* -------------------------- Node construction ------------------------- *)

\* str.endswith
EndsWith(str, suffix) ==
    Len(str) >= Len(suffix) /\ SubSeq(str, Len(str) - Len(suffix) + 1, Len(str)) = suffix

\* mimetypes.guess_type(uri)[0]: by the extension, None when it is unknown.
guess_type(uri) ==
    IF EndsWith(uri, <<".", "o">>) THEN "application/octet-stream"
    ELSE IF EndsWith(uri, <<".", "s", "h">>) THEN "application/x-sh"
    ELSE null

\* The order in which create walks the dictionary.
PKeySeq == <<"type", "date", "groupread", "groupwrite", "ispublic">>

\* create() lines 396-403: a property element for every entry that is not
\* None, with a text when the value is not empty.
RECURSIVE create_properties(_, _)
create_properties(dict, keys) ==
    IF keys = <<>> THEN <<>>
    ELSE LET k == Head(keys)
             rest == create_properties(dict, Tail(keys))
         IN  IF dict[k] \in {missing, null} THEN rest
             ELSE <<Prop(k, IF dict[k] = "" THEN null ELSE dict[k])>> \o rest

\* Node.create, lines 391-403.  properties is the dictionary the parameter
\* is bound to: the caller's, or the one default dictionary, whose 'type'
\* entry is defaults.  Line 393 writes into that dictionary.
create(uri, arg, defaults) ==
    LET properties == IF arg.given THEN arg.dict
                      ELSE [k \in PKeys |-> IF k = "type" THEN defaults ELSE missing]
        filled == IF properties["type"] = missing
                  THEN [properties EXCEPT !["type"] = guess_type(uri)]
                  ELSE properties
    IN  [xml |-> <<create_properties(filled, PKeySeq)>>,
         defaults |-> IF arg.given THEN defaults ELSE filled["type"]]

\* The text of the document's last property element named 'type'.
type_prop(xml) ==
    LET all == AllProps(xml)
        at == {j \in 1..Len(all) : all[j].name = "type"}
    IN  IF at = {} THEN missing ELSE all[CHOOSE j \in at : \A i \in at : i <= j].text

\* Node.__init__ and update() on an element: None raises LookupError; an
\* element without a type leaves update() at line 175, before uri is set;
\* os.path.basename of a uri that is None raises AttributeError.
Node_element(type, uri, xml) ==
    LET x == Node_init(type, xml)
    IN  IF type = null
        THEN [obj |-> [NoObj EXCEPT !.exists = TRUE], out |-> Return("Node", 0, <<>>)]
        ELSE IF uri = <<null>>
        THEN [obj |-> NoObj, out |-> Raise("AttributeError", "", 0, "", <<>>)]
        ELSE IF x.out.kind = "raise"
        THEN [obj |-> NoObj, out |-> x.out]
        ELSE [obj |-> [exists |-> TRUE, type |-> type, uri |-> uri, props |-> x.n.props,
                       ptype |-> type_prop(xml)],
              out |-> Return("Node", 0, <<>>)]

\* Node(...): what the constructor gives for arg, and what it leaves in the
\* default dictionary.
Node_new(arg, defaults) ==
    LET c == create(arg.uri, arg, defaults)
    IN  IF arg.how = "parse"
        THEN IF ~arg.element
             THEN [obj |-> NoObj, out |-> Raise("LookupError", "", 0, "", <<>>),
                   defaults |-> defaults]
             ELSE [obj |-> Node_element(arg.type, arg.uri, arg.xml).obj,
                   out |-> Node_element(arg.type, arg.uri, arg.xml).out,
                   defaults |-> defaults]
        ELSE [obj |-> Node_element(arg.type, arg.uri, c.xml).obj,
              out |-> Node_element(arg.type, arg.uri, c.xml).out,
              defaults |-> c.defaults]

\* A constructor call.
Node_call(arg) ==
    /\ made.stage = ""
    /\ made.count < MaxMade
    /\ LET x == Node_new(arg, made.defaults)
       IN  /\ made' = [defaults |-> x.defaults, stage |-> "done", count |-> made.count + 1,
                       arg |-> arg, obj |-> x.obj]
           /\ result' = x.out
    /\ UNCHANGED <<f, wire, conns, log, written, call, pc, cp, pg, node, nop, ux,
                   opened, gconn, mv, server>>

\* Node(element), as getNode and addChild call it.
Node_parse(element, type, uri, xml) ==
    Node_call([NoArg EXCEPT !.how = "parse", !.element = element, !.type = type,
                            !.uri = uri, !.xml = xml])

\* Node(uri, nodeType) and Node(uri, nodeType, properties).
Node_create(uri, nodeType, given, dict) ==
    Node_call([NoArg EXCEPT !.how = "create", !.element = TRUE, !.type = nodeType,
                            !.uri = uri, !.given = given, !.dict = dict])

\* mkdir() line 911: Node(self.fixURI(uri), nodeType="vos:ContainerNode").
mkdir_Node(uri) ==
    /\ fixURI(uri).kind = "return"
    /\ Node_call([NoArg EXCEPT !.how = "mkdir", !.element = TRUE,
                              !.type = "vos:ContainerNode", !.uri = fixURI(uri).data])

\* The caller drops the node; the process goes on.
Node_drop ==
    /\ made.stage = "done"
    /\ made' = [NoMake EXCEPT !.defaults = made.defaults, !.count = made.count]
    /\ result' = Pending
    /\ UNCHANGED <<f, wire, conns, log, written, call, pc, cp, pg, node, nop, ux,
                   opened, gconn, mv, server>>

\* The uri strings nodes are created with.
MakeURIs ==
    {<<"v", "o", "s", ":", "/", "/", "h", "/", "a", ".", "o">>,
     <<"v", "o", "s", ":", "/", "/", "h", "/", "a", ".", "s", "h">>,
     <<"v", "o", "s", ":", "/", "/", "h", "/", "a">>}

\* The dictionaries callers pass as properties.
MakeDicts ==
    {[k \in PKeys |-> missing],
     [k \in PKeys |-> IF k = "type" THEN "text/xml" ELSE missing],
     [k \in PKeys |-> CASE k = "groupread" -> "X" [] k = "ispublic" -> ""
                         [] k = "groupwrite" -> null [] OTHER -> missing]}

\* The elements nodes are parsed from: with and without type and uri, and
\* one whose date strptime rejects.
MakeDocuments ==
    {<<>>,
     <<<<Prop("ispublic", "true"), Prop("groupread", null)>>>>,
     <<<<Prop("type", "text/xml"), Prop("date", "yesterday")>>>>}

NextMake ==
    \/ \E element \in BOOLEAN, type \in {null, "vos:DataNode", "vos:ContainerNode"},
          uri \in {<<null>>, <<"v", "o", "s", ":", "/", "/", "h", "/", "a">>},
          xml \in MakeDocuments : Node_parse(element, type, uri, xml)
    \/ \E uri \in MakeURIs, nodeType \in {"vos:DataNode", "vos:ContainerNode"},
          dict \in MakeDicts : Node_create(uri, nodeType, TRUE, dict)
    \/ \E uri \in MakeURIs, nodeType \in {"vos:DataNode", "vos:ContainerNode"} :
          Node_create(uri, nodeType, FALSE, [k \in PKeys |-> missing])
    \/ \E uri \in MakeURIs : mkdir_Node(uri)
    \/ Node_drop

SpecMake == Init /\ [][NextMake]_vars

(* ------------------------- parsing a document ------------------------- *)

\* ET.parse of what str(node) wrote, token by token.  An element written
\* without text ("/>") has the text None.
parse_property(t, i) ==
    LET nil == t[i + 2] = "xsi:nil"
        j   == IF nil THEN i + 3 ELSE i + 2
    IN  IF t[j] = "/>"
        THEN [p |-> [name |-> t[i + 1], text |-> null, nil |-> nil], next |-> j + 1]
        ELSE [p |-> [name |-> t[i + 1], text |-> t[j + 1], nil |-> nil], next |-> j + 3]

\* The property elements from t[i] up to the closing tag.
RECURSIVE parse_properties(_, _, _)
parse_properties(t, i, el) ==
    IF t[i] = "</properties>" THEN [el |-> el, next |-> i + 1]
    ELSE LET x == parse_property(t, i)
         IN  parse_properties(t, x.next, Append(el, x.p))

\* The properties elements from t[i] up to the end of the node element.
RECURSIVE parse_children(_, _, _)
parse_children(t, i, xml) ==
    IF t[i] = "</node>" THEN xml
    ELSE LET x == parse_properties(t, i + 1, <<>>)
         IN  parse_children(t, x.next, Append(xml, x.el))

\* getNode() lines 758-760: Node(ET.parse(document).getroot()).
parse(t) == Node_init(t[2], parse_children(t, 4, <<>>))

(* ------------------------ an unreliable transport --------------------- *)

\* What the transport does during close(): it works, send raises, or
\* getresponse raises.  In the last two cases line 545, httpCon.close(), is
\* not reached.
Faults == {"ok", "send", "getresponse"}

\* The response a close() reads: none when the transport fails first.
DrawnUnder(flt) == IF flt = "ok" THEN Drawn(~f.closed) ELSE {InitResp}

\* close() on a transport that may fail.
VOFile_close_fault(code, flt) ==
    /\ UNCHANGED xvars
    /\ pc = "idle"
    /\ Held
    /\ f.closed \/ NResp(log) < MaxResp
    /\ f.closed => flt = "ok"
    /\ \E r \in DrawnUnder(flt) :
         LET x == close(World, code, r, flt)
         IN  /\ Commit(x.w)
             /\ result' = x.out
             /\ call' = [Call("close") EXCEPT !.codes = code,
                                               !.got = NResp(x.w.log) - NResp(log)]
    /\ pc' = "idle"
    /\ UNCHANGED cp

\* read(size), or its recursive call, on a transport that may fail.
VOFile_read_fault(size, flt) ==
    /\ UNCHANGED xvars
    /\ Held
    /\ \/ pc = "idle"
       \/ pc = "read" /\ size = call.size
    /\ f.closed \/ (NResp(log) < MaxResp /\ NReq(log) <= MaxResp)
    /\ f.closed => flt = "ok"
    /\ \E r \in DrawnUnder(flt) :
         LET x == read(World, size, r, flt)
         IN  /\ Commit(x.w)
             /\ result' = x.out
             /\ pc' = IF x.again THEN "read" ELSE "idle"
             /\ call' = [Call("read") EXCEPT
                            !.size = size,
                            !.codes = CloseCodes,
                            !.got = (IF pc = "read" THEN call.got ELSE 0)
                                    + NResp(x.w.log) - NResp(log)]
    /\ UNCHANGED cp

NextFault ==
    \/ Forget
    \/ \E m \in {"GET", "PUT"} : VOFile_init(NodeURL, m)
    \/ VOFile_write(<<"a">>)
    \/ \E flt \in Faults : VOFile_close_fault(CloseCodes, flt)
    \/ \E flt \in Faults : VOFile_read_fault(None, flt)

SpecFault == Init /\ [][NextFault]_vars

(* ----------------- getNode against a server that pages ---------------- *)

\* The child a request for url continues from: the uri field of its query.
requested(url) ==
    IF url = NodeURL THEN NoURI ELSE CHOOSE c \in Children : PageURL(c) = url

\* Where child c stands among the server's children (0: nowhere).
IndexOf(children, c) ==
    IF \E i \in 1..Len(children) : children[i] = c
    THEN CHOOSE i \in 1..Len(children) : children[i] = c
    ELSE 0

\* The page a server gives that starts each page at the continuation URI:
\* pageLen children from that child on, or from the first one.
servePage(srv, url) ==
    LET from == IF requested(url) = NoURI THEN 1 ELSE IndexOf(srv.children, requested(url))
    IN  IF from = 0 THEN <<>>
        ELSE SubSeq(srv.children, from, Min(from + srv.pageLen - 1, Len(srv.children)))

\* The url of the last request made.
lastRequest(l) == l[CHOOSE i \in 1..Len(l) : l[i].ev = "req" /\ \A j \in (i + 1)..Len(l) : l[j].ev # "req"].url

\* getNode() lines 770-781, one trip around the while loop, the page being
\* the one the server holds for the URL requested, the one getChildrenXMLDoc
\* opens: the world, the locals, and what getNode has to return after it.
page_served(w, p, srv, r) ==
    LET x == getChildrenXMLDoc(w, p.nextURI, r)
        page == servePage(srv, PageURL(p.nextURI))
        a == addChildren(p.nodeList, p.nextURI, FALSE, page)
    IN  IF x.out.kind = "raise"
        THEN [w |-> x.w, pg |-> [p EXCEPT !.stage = "failed"], pc |-> "idle", out |-> x.out]
        ELSE [w |-> x.w,
              pg |-> [p EXCEPT !.nodeList = a.nodeList,
                               !.nextURI = a.nextURI,
                               !.served = Append(@, page),
                               !.stage = IF a.again THEN "loop" ELSE "done"],
              pc |-> IF a.again THEN "getNode" ELSE "idle",
              out |-> IF a.again THEN Pending ELSE Return("Node", 0, <<>>)]

\* The loop makes its next request and the server answers it.
getNode_page_served ==
    /\ UNCHANGED <<node, nop, ux, yvars>>
    /\ pc = "getNode"
    /\ pg.stage = "loop"
    /\ \E r \in FlushResponses :
         /\ Commit(page_served(World, pg, server, r).w)
         /\ call' = [Call("getNode") EXCEPT !.got = NResp(page_served(World, pg, server, r).w.log)]
         /\ pg' = page_served(World, pg, server, r).pg
         /\ pc' = page_served(World, pg, server, r).pc
         /\ result' = page_served(World, pg, server, r).out
    /\ UNCHANGED cp

\* The lists of children a container can hold: no child twice.
ChildLists == {l \in PagesUpTo(Cardinality(Children)) : \A i, j \in 1..Len(l) : l[i] = l[j] => i = j}

InitServed ==
    /\ f = NoFile
    /\ wire = <<>>
    /\ conns = {}
    /\ log = <<>>
    /\ written = <<>>
    /\ call = Call("none")
    /\ pc = "idle"
    /\ result = Pending
    /\ cp = NoCopy
    /\ pg = NoPage
    /\ node = NoNode
    /\ nop = NoOp
    /\ ux = NoFix
    /\ opened = NoOpen
    /\ gconn = NoConn
    /\ mv = NoMove
    /\ made = NoMake
    /\ \E children \in ChildLists, pageLen \in 1..(MaxPageLen + 1) :
         server = [children |-> children, pageLen |-> pageLen]

NextServed ==
    \/ \E limit \in {0, 1} : getNode_begin(limit)
    \/ getNode_page_served
    \/ getNode_drop

\* getNode runs on: a loop that can make its next request makes it.
SpecServed == InitServed /\ [][NextServed]_vars /\ WF_vars(getNode_page_served)

(* ------------------------------ claims --------------------------------- *)

RespIdx(l) == {i \in 1..Len(l) : l[i].ev = "resp"}
ReqIdx(l)  == {i \in 1..Len(l) : l[i].ev = "req"}
Last(S)    == CHOOSE i \in S : \A j \in S : j <= i

\* The last response read in this operation, and the event that logged it.
LastRespEv == log[Last(RespIdx(log))]
LastResp   == LastRespEv.r

\* A call has finished and read at least one response while it ran.
FinishedRequest == pc = "idle" /\ call.got >= 1 /\ RespIdx(log) # {}

\* C1: HTTP 503 is recovered by wait-and-retry for every request, also the
\* ones close() finishes: no call that read a response ends, returning or
\* raising, on a 503; it waits and issues the request again.
C1_TransientRecovered ==
    /\ FinishedRequest => LastResp.status # 503
    /\ (call.name = "copy" /\ pc = "idle" /\ cp.dir = "up" /\ result.kind = "return") =>
          cp.xfer # 503

\* The seconds the claim says read() waits for a Retry-After header.
ClaimedWait(h) == IF h = "0" THEN 0 ELSE IF h = "2" THEN 2 ELSE 5

\* C2: read() answers every 503 by sleeping Retry-After seconds (5 without a
\* usable header) and only then issuing GET to the same URL; after any number
\* of consecutive 503s it is still retrying, it has neither returned nor
\* raised; when it returns, the last response was not a 503 and the bytes
\* returned are that response's body.
C2_RetryAfter ==
    /\ \A i \in 1..Len(log) :
         log[i].ev = "sleep" =>
            /\ i > 1 /\ i < Len(log)
            /\ log[i-1].ev = "resp" /\ log[i-1].r.status = 503
            /\ log[i].secs = ClaimedWait(log[i-1].r.retryAfter)
            /\ log[i+1].ev = "req" /\ log[i+1].method = "GET"
            /\ log[i+1].url = log[i-1].url
    /\ call.name = "read" =>
         \A i \in RespIdx(log) : log[i].r.status = 503 =>
            i < Len(log) /\ log[i+1].ev = "sleep"
    /\ (call.name = "read" /\ RespIdx(log) # {} /\ LastResp.status = 503) =>
         pc = "read" /\ result = Pending
    /\ (call.name = "read" /\ FinishedRequest /\ result.kind = "return") =>
         /\ LastResp.status \in {200, 206}
         /\ result.data = Take(LastResp.body, call.size)

\* Two 503s, one with Retry-After: 2 and one without, then the body.
C2_Witness ==
    /\ call.name = "read" /\ pc = "idle" /\ result.kind = "return"
    /\ result.data = <<"a", "b", "a">>
    /\ \E i, j \in 1..Len(log) :
         /\ log[i].ev = "sleep" /\ log[i].secs = 2
         /\ log[j].ev = "sleep" /\ log[j].secs = 5

Redirected(r) == r.status \in {302, 303}

\* C3: a 302/303 with a Location makes read() issue a fresh GET to that URL,
\* and on one VOFile nothing else issues a request after a response; read() goes on
\* to return the body of the response to that request; without a Location
\* read() raises not-found and no request follows.
C3_RedirectFollowed ==
    /\ \A i \in 2..Len(log) :
         (Held /\ log[i].ev = "req" /\ log[i-1].ev = "resp") =>
            /\ Redirected(log[i-1].r)
            /\ log[i-1].r.location \notin {NoHeader, ""}
            /\ log[i].method = "GET"
            /\ log[i].url = log[i-1].r.location
    /\ \A i \in RespIdx(log) : log[i].url = log[Last({j \in ReqIdx(log) : j < i})].url
    /\ (call.name = "read" /\ RespIdx(log) # {} /\ Redirected(LastResp)) =>
         IF LastResp.location \in {NoHeader, ""}
         THEN /\ pc = "idle"
              /\ result.kind = "raise" /\ result.err = "ENOENT"
              /\ log[Len(log)].ev = "resp"
         ELSE /\ pc = "read" /\ result = Pending
              /\ log[Len(log)] = ReqEv("GET", LastResp.location)
              /\ f.url = LastResp.location /\ ~f.closed
    /\ (call.name = "read" /\ FinishedRequest /\ result.kind = "return") =>
         result.data = Take(LastResp.body, call.size)

\* Two redirects in a row, then the body from the second Location.
C3_Witness ==
    /\ call.name = "read" /\ pc = "idle" /\ result.kind = "return"
    /\ result.data = <<"a", "b", "a">>
    /\ Len(log) = 6
    /\ log[2].r.status = 303 /\ log[3] = ReqEv("GET", AltURL)
    /\ log[4].r.status = 302 /\ log[5] = ReqEv("GET", Alt2URL)
    /\ LastRespEv.url = Alt2URL

\* C4: the call that reads a response with status 404 raises not-found,
\* with 401 permission-denied, with 409 and DuplicateNode in the body
\* file-exists, and with any other status outside the accepted set an I/O
\* error carrying the status and the URL; it does not return.
C4_StatusErrors ==
    FinishedRequest =>
        LET st  == LastResp.status
            url == LastRespEv.url
        IN  /\ st = 404 => result = Raise("IOError", "ENOENT", 0, url, <<>>)
            /\ st = 401 => result = Raise("IOError", "EACCES", 0, url, <<>>)
            /\ (st = 409 /\ HasDuplicateNode(LastResp.body)) =>
                   result = Raise("OSError", "EEXIST", 0, url, <<>>)
            /\ (st \notin call.codes /\ st \notin {404, 401}
                  /\ ~(st = 409 /\ HasDuplicateNode(LastResp.body))) =>
                   /\ result.kind = "raise" /\ result.exc = "IOError"
                   /\ result.status = st /\ result.url = url

\* mkdir of a node that exists.
C4_Witness ==
    /\ call.name = "mkdir" /\ pc = "idle"
    /\ LastResp.status = 409
    /\ result.kind = "raise" /\ result.err = "EEXIST"

\* C5: a read() that gets status 416 returns empty bytes and raises nothing,
\* and a close() that gets 416 accepts it.
C5_PastEOF ==
    /\ (call.name = "read" /\ FinishedRequest /\ LastResp.status = 416) =>
          result = Return("bytes", 0, <<>>)
    /\ (call.name = "close" /\ FinishedRequest /\ LastResp.status = 416) =>
          result.kind = "return"

\* The chunk frames of the buffers written, by the model's own ChunkFrame.
RECURSIVE Frames(_)
Frames(bufs) == IF bufs = <<>> THEN <<>> ELSE ChunkFrame(Head(bufs)) \o Frames(Tail(bufs))

\* C6: close() on a closed VOFile sends nothing, reads nothing, checks
\* nothing, raises nothing and changes nothing; so a closed request has had
\* exactly one terminating chunk sent, after the frames written, and exactly
\* one response read, however many times close() was called.
C6_CloseIdempotent ==
    [][ /\ (call'.name = "close" /\ f.exists /\ f.closed) =>
             /\ f' = f /\ wire' = wire /\ conns' = conns /\ log' = log
             /\ written' = written
             /\ result' = Return("None", 0, <<>>)
        /\ (f'.exists /\ f'.closed) =>
             /\ wire' = Frames(written') \o <<"0", "\r", "\n", "\r", "\n">>
             /\ Cardinality({i \in RespIdx(log') : i > Last(ReqIdx(log'))}) = 1
      ]_vars

\* A second close(): only a close() on a closed VOFile returns None.
C6_Witness ==
    /\ call.name = "close" /\ result = Return("None", 0, <<>>)
    /\ f.closed /\ Len(written) = 1

\* C7: write() on a VOFile that is closed, or that has no connection, raises
\* not-connected and puts nothing on the wire.
C7_WriteAfterClose ==
    [][ (call'.name = "write" /\ (f.closed \/ f.httpCon = 0)) =>
            /\ result'.kind = "raise" /\ result'.exc = "OSError"
            /\ result'.err = "ENOTCONN"
            /\ wire' = wire /\ log' = log /\ written' = written
      ]_vars

\* A write() refused after a read() closed the VOFile on a redirect target.
C7_Witness ==
    /\ call.name = "write" /\ result.err = "ENOTCONN"
    /\ f.closed /\ f.url = AltURL /\ RespIdx(log) # {} /\ LastResp.status = 200

\* The chunk frame as the claim words it: the length in upper-case hex,
\* CRLF, the body, CRLF.
ClaimDigit(d) ==
    CASE d = 0 -> "0" [] d = 1 -> "1" [] d = 2 -> "2" [] d = 3 -> "3"
      [] d = 4 -> "4" [] d = 5 -> "5" [] d = 6 -> "6" [] d = 7 -> "7"
      [] d = 8 -> "8" [] d = 9 -> "9" [] d = 10 -> "A" [] d = 11 -> "B"
      [] d = 12 -> "C" [] d = 13 -> "D" [] d = 14 -> "E" [] d = 15 -> "F"
ClaimHex(n) ==
    IF n < 16 THEN <<ClaimDigit(n)>>
    ELSE <<ClaimDigit(n \div 16), ClaimDigit(n % 16)>>
ClaimFrame(b) == ClaimHex(Len(b)) \o <<"\r", "\n">> \o b \o <<"\r", "\n">>
RECURSIVE ClaimFrames(_)
ClaimFrames(bufs) ==
    IF bufs = <<>> THEN <<>> ELSE ClaimFrame(Head(bufs)) \o ClaimFrames(Tail(bufs))

\* C8: the bytes sent after the request headers are the chunk frames of the
\* buffers written, in call order, followed once the VOFile is closed by the
\* zero-length chunk; a write() that returns returns its buffer's length.
C8_ChunkedFIFO ==
    /\ f.exists =>
          wire = ClaimFrames(written)
                 \o (IF f.closed THEN <<"0", "\r", "\n", "\r", "\n">> ELSE <<>>)
    /\ (call.name = "write" /\ result.kind = "return") =>
          /\ result.ret = "int" /\ result.n = Len(call.buf)
          /\ written # <<>> /\ written[Len(written)] = call.buf

\* A 26-byte and then a 10-byte buffer written, and the VOFile closed.
C8_Witness ==
    /\ f.exists /\ f.closed
    /\ Len(written) = 2 /\ Len(written[1]) = 26 /\ Len(written[2]) = 10

\* The transfer of a copy ran to its end: both handles were closed.
Transferred == call.name = "copy" /\ pc = "idle" /\ cp.stage \in {"done", "fetchFailed"}

\* C9: with sendMD5=false a copy whose transfer ran to its end returns the
\* number of bytes written when that is the source size taken before the
\* transfer, and raises "sizes don't match" otherwise; nothing else decides.
C9_SizeCheckDecides ==
    (Transferred /\ ~cp.sendMD5) =>
        IF cp.destSize = cp.srcSize
        THEN result = Return("int", cp.destSize, <<>>)
        ELSE result = Raise("IOError", "EIO", 0, "src", <<"sizes don't match">>)

RECURSIVE Flatten(_)
Flatten(bufs) == IF bufs = <<>> THEN <<>> ELSE Head(bufs) \o Flatten(Tail(bufs))

\* The bytes the copy read from its input, up to the first zero-length read:
\* the local file on upload, the body of the transfer's response on download.
CopyInput  == IF cp.dir = "up" THEN cp.content ELSE log[Len(log) - 2].r.body
\* The bytes the copy wrote to its output: the buffers the VOFile was
\* handed on upload, the local file on download.
CopyOutput == IF cp.dir = "up" THEN Flatten(written) ELSE cp.out

\* The MD5 the claim compares with: the node's, or that of the empty string.
ClaimedMD5 == IF cp.stored = Absent THEN <<"d41d8cd98f00b204e9800998ecf8427e">> ELSE cp.stored

\* C10: with sendMD5=true copy returns the hex MD5 of the bytes it read and
\* wrote, all of the input in order and no empty buffer; it returns only
\* when that digest is the MD5 property of the node it fetched last, after
\* the handles were closed (the MD5 of the empty string when the node has
\* none); when they differ it raises an I/O error.
C10_MD5Verified ==
    (call.name = "copy" /\ pc = "idle" /\ cp.sendMD5) =>
        /\ result.kind = "return" =>
              /\ cp.stage = "done"
              /\ result.ret = "digest"
              /\ result.data = hexdigest(CopyInput)
              /\ CopyOutput = CopyInput
              /\ result.data = ClaimedMD5
        /\ cp.stage = "done" =>
              /\ f.closed
              /\ log[Len(log) - 1] = ReqEv("GET", NodeURL)
              /\ log[Len(log)].ev = "resp"
              /\ \A i \in 1..Len(written) : written[i] # <<>>
              /\ hexdigest(CopyInput) # ClaimedMD5 =>
                    result = Raise("OSError", "EIO", 0, "src", <<"MD5s don't match">>)
              /\ hexdigest(CopyInput) = ClaimedMD5 => result.kind = "return"

\* An upload of three bytes, two trips around the loop, verified.
C10_Witness ==
    /\ call.name = "copy" /\ pc = "idle" /\ cp.sendMD5 /\ cp.dir = "up"
    /\ result.kind = "return" /\ result.data = <<"md5", "a", "b", "a">>
    /\ Len(written) = 2

NoDup(s) == \A i, j \in 1..Len(s) : s[i] = s[j] => i = j

\* s without the later occurrences of a value that occurred before.
RECURSIVE FirstOccurrences(_)
FirstOccurrences(s) ==
    IF s = <<>> THEN <<>>
    ELSE LET init == FirstOccurrences(SubSeq(s, 1, Len(s) - 1))
             x    == s[Len(s)]
         IN  IF \E i \in 1..Len(init) : init[i] = x THEN init ELSE Append(init, x)

\* C11: while and after getNode(uri, limit>0) loads a container, the child
\* list holds no URI twice and holds the children in the order the server
\* advertised them over the pages served, whatever pages it serves.
C11_ChildrenOnce ==
    (pg.stage \in {"loop", "done"} /\ pg.isdir /\ pg.limit > 0) =>
        /\ NoDup(pg.nodeList)
        /\ pg.nodeList = FirstOccurrences(Flatten(pg.served))

\* The operation made last on the node.
LastOp == nop.hist[Len(nop.hist)]
\* That operation was op and it returned.
Returned(op) == nop.hist # <<>> /\ LastOp.name = op /\ result.kind = "return"

\* C12: right after changeProp(k, v) with v not null, the node's property
\* map gives v for k, whether k was present or not.
C12_ChangeThenRead ==
    (Returned("changeProp") /\ LastOp.value # null) =>
        node.props[LastOp.key] = LastOp.value

\* A property element named k is in the document.
ClaimPresent(xml, k) == \E i \in 1..Len(xml) : \E j \in 1..Len(xml[i]) : xml[i][j].name = k

\* The document is xml0 but for the elements named k, which have become
\* what Becomes makes of them.
ClaimRewritten(xml1, xml0, k, text, marksNil) ==
    /\ Len(xml1) = Len(xml0)
    /\ \A i \in 1..Len(xml0) :
         /\ Len(xml1[i]) = Len(xml0[i])
         /\ \A j \in 1..Len(xml0[i]) :
              IF xml0[i][j].name # k THEN xml1[i][j] = xml0[i][j]
              ELSE /\ xml1[i][j].name = k
                   /\ xml1[i][j].text = text
                   /\ marksNil => xml1[i][j].nil

\* C13: changeProp(k, v) does one of four things.  k present, v not null:
\* the property's text becomes v, 1 is returned.  k present, v null: the
\* property gets the nil marker and an empty text, 0 is returned.  k absent,
\* v not null: one property is appended to the first properties element, 1
\* is returned.  k absent, v null: nothing changes, 0 is returned.
C13_FourOutcomes ==
    [][ (nop'.hist # nop.hist /\ LastOp'.name = "changeProp") =>
          LET k == LastOp'.key
              v == LastOp'.value
          IN  IF ClaimPresent(node.xml, k)
              THEN IF v # null
                   THEN /\ result' = Return("int", 1, <<>>)
                        /\ ClaimRewritten(node'.xml, node.xml, k, v, FALSE)
                   ELSE /\ result' = Return("int", 0, <<>>)
                        /\ ClaimRewritten(node'.xml, node.xml, k, "", TRUE)
              ELSE IF v # null
                   THEN /\ result' = Return("int", 1, <<>>)
                        /\ node.xml # <<>>
                        /\ node'.xml = [node.xml EXCEPT ![1] = Append(@, Prop(k, v))]
                   ELSE /\ result' = Return("int", 0, <<>>)
                        /\ node' = node
      ]_vars

\* The values of ispublic, groupread and groupwrite a node has: the texts
\* of its property elements of these names, and its property map's entries.
ClaimPermProps(n) ==
    LET all == AllProps(n.xml)
    IN  [k \in {"ispublic", "groupread", "groupwrite"} |->
            [map   |-> n.props[k],
             texts |-> {<<j, all[j].text>> : j \in {i \in 1..Len(all) : all[i].name = k}}]]

\* C14: chmod(mode) returns true exactly when one of ispublic, groupread,
\* groupwrite has after the call a value it did not have before.
C14_ChmodReportsChange ==
    [][ (nop'.hist # nop.hist /\ LastOp'.name = "chmod" /\ result'.kind = "return") =>
          ((result'.ret = "True") <=> (ClaimPermProps(node') # ClaimPermProps(node)))
      ]_vars

\* The text the document gives for property k, missing when it has none.
ClaimText(n, k) == setProps([x \in Keys |-> missing], n.xml)[k]

\* The claim's start: a data node with ispublic=false, groupread=X, groupwrite=X.
ClaimStart(n) ==
    /\ n.type = "vos:DataNode"
    /\ n.props["ispublic"] = "false" /\ n.props["groupread"] = "X" /\ n.props["groupwrite"] = "X"

\* C15: from that start chmod(0o750) leaves ispublic=false and groupread=X
\* and empties groupwrite, and the st_mode computed afterwards from the
\* node's properties is IFREG|0o750; whatever the node, a group or
\* other-read bit chmod was told to clear is clear in that st_mode.
C15_ChmodRoundTrip ==
    /\ (ClaimStart(nop.start) /\ nop.hist = <<Op("chmod", "", "", 488)>>) =>
          /\ ClaimText(node, "ispublic") = "false"
          /\ ClaimText(node, "groupread") = "X"
          /\ ClaimText(node, "groupwrite") = ""
    /\ (ClaimStart(nop.start)
          /\ nop.hist = <<Op("chmod", "", "", 488), Op("update", "", "", 0)>>) =>
          /\ node.attr.set
          /\ node.attr.st_mode = S_IFREG + 488
    /\ (Len(nop.hist) = 2 /\ nop.hist[1].name = "chmod" /\ nop.hist[2].name = "update"
          /\ node.attr.set) =>
          \A bit \in {S_IRGRP, S_IWGRP, S_IROTH} :
              ~HasBit(nop.hist[1].mode, bit) => ~HasBit(node.attr.st_mode, bit)

\* The mode as the claim derives it from the type and the three properties
\* (a property the node lacks counts as "NONE", ispublic as "false").
ClaimMode(type, ispublic, groupread, groupwrite) ==
    (IF type = "vos:ContainerNode" THEN 16384 ELSE 32768)
    + 448
    + (IF groupwrite \notin {"NONE", missing} THEN 16 ELSE 0)
    + (IF groupread \notin {"NONE", missing} THEN 40 ELSE 0)
    + (IF ispublic = "true" THEN 5 ELSE 0)

\* The st_mode was computed from the node's present properties: by the
\* constructor, or by the update() made last.
ClaimComputed == node.attr.set /\ (nop.hist = <<>> \/ LastOp.name = "update")

\* C16: a computed st_mode has IFDIR for a container and IFREG otherwise,
\* never both, has the owner's rwx bits and never the other-write bit; it is
\* a function of the type, ispublic, groupread and groupwrite alone, and a
\* change of date followed by update() leaves it as it was.
C16_ModeFromPerms ==
    /\ node.attr.set =>
          /\ HasBit(node.attr.st_mode, S_IFDIR) <=> node.type = "vos:ContainerNode"
          /\ HasBit(node.attr.st_mode, S_IFREG) <=> node.type # "vos:ContainerNode"
          /\ HasBit(node.attr.st_mode, S_IRUSR)
          /\ HasBit(node.attr.st_mode, S_IWUSR)
          /\ HasBit(node.attr.st_mode, S_IXUSR)
          /\ ~HasBit(node.attr.st_mode, S_IWOTH)
    /\ ClaimComputed =>
          node.attr.st_mode = ClaimMode(node.type, node.props["ispublic"],
                                        node.props["groupread"], node.props["groupwrite"])
    /\ (ClaimComputed /\ Len(nop.hist) = 2 /\ nop.hist[1].name = "changeProp"
          /\ nop.hist[1].key = "date") =>
          node.attr.st_mode = nop.start.attr.st_mode

\* A public container with both groups had its date changed and was updated.
C16_Witness ==
    /\ ClaimComputed /\ Len(nop.hist) = 2
    /\ nop.hist[1] = Op("changeProp", "date", "2013-06-30T12:00:00.000", 0)
    /\ node.props["date"] = "2013-06-30T12:00:00.000"
    /\ nop.start.props["date"] = "2012-01-01T00:00:00.000"
    /\ node.type = "vos:ContainerNode"
    /\ node.attr.st_mode = 16384 + 509

Flushes == {"Client.update", "addProps"}

\* The document a flush posted holds a property k with text v.
ClaimPosted(k, v) ==
    /\ nop.flushed
    /\ \E j \in 1..Len(AllProps(nop.posted)) :
          AllProps(nop.posted)[j].name = k /\ AllProps(nop.posted)[j].text = v

\* C17: calls on the node alone send nothing; after changeProp(k, v), v not
\* null and not what the server has stored for k, the document the next
\* Client.update(node) or Client.addProps(node) posts holds k with value v.
C17_FlushCarriesChange ==
    /\ (\A i \in 1..Len(nop.hist) : nop.hist[i].name \notin Flushes) =>
          log = <<>> /\ wire = <<>> /\ conns = {}
    /\ (Len(nop.hist) = 2 /\ nop.start.xml # <<>>
          /\ nop.hist[1].name = "changeProp" /\ nop.hist[1].value # null
          /\ nop.hist[2].name \in Flushes /\ nop.flushed
          /\ (nop.hist[2].name = "addProps" => nop.stored[nop.hist[1].key] # nop.hist[1].value)) =>
          ClaimPosted(nop.hist[1].key, nop.hist[1].value)

\* The entries the claim says are sent: those of the node's property map
\* that the server lacks, has with another value, or that are null.
ClaimSent(props, stored) ==
    {k \in Keys : /\ props[k] # missing
                  /\ (stored[k] = missing \/ stored[k] # props[k] \/ props[k] = null)}

\* C18: addProps(node) first fetches the stored node; when that succeeds it
\* posts one document whose properties are exactly the entries of the node's
\* property map that are absent on the server, differ from the stored value
\* or are null, a null one with the nil marker and an empty text; an entry
\* whose non-null value is the stored one is not sent.
C18_AddPropsDelta ==
    [][ (nop'.hist # nop.hist /\ LastOp'.name = "addProps") =>
          /\ log'[1] = ReqEv("GET", NodeURL)
          /\ log'[2].ev = "resp"
          /\ IF nop'.flushed
             THEN /\ Len(log') = 4
                  /\ log'[3] = ReqEv("POST", NodeURL)
                  /\ written' = <<Node_str(node')>>
                  /\ node'.xml = nop'.posted
                  /\ Len(nop'.posted) = 1
                  /\ LET el   == nop'.posted[1]
                         sent == ClaimSent(node.props, nop'.stored)
                     IN  /\ {el[j].name : j \in 1..Len(el)} = sent
                         /\ Len(el) = Cardinality(sent)
                         /\ \A j \in 1..Len(el) :
                              IF node.props[el[j].name] = null
                              THEN el[j].nil /\ el[j].text = ""
                              ELSE ~el[j].nil /\ el[j].text = node.props[el[j].name]
             ELSE /\ Len(log') = 2
                  /\ node' = node
                  /\ result'.kind = "raise"
      ]_vars

\* A flush that sent a changed entry and a tombstone, and left out date,
\* stored with the same value.
C18_Witness ==
    /\ nop.hist # <<>> /\ LastOp.name = "addProps" /\ nop.flushed
    /\ result.kind = "return"
    /\ nop.posted = <<<<Prop("groupread", "X"), [name |-> "ispublic", text |-> "", nil |-> TRUE]>>>>
    /\ nop.stored["date"] = "2012-01-01T00:00:00.000"
    /\ nop.start.props["date"] = "2012-01-01T00:00:00.000"
    /\ nop.stored["groupread"] = null

\* C19: fixURI is idempotent: on what fixURI returned, fixURI succeeds and
\* returns the same.
C19_FixURIIdempotent ==
    ux.calls = 2 => ux.twice = ux.once

\* The allow-list of leaf names: [A-Za-z0-9_\-()=+!,;:@&*$.~].
ClaimAllowed == {"a", "h", "o", "r", "s", "v",
                 "_", "-", "(", ")", "=", "+", "!", ",", ";", ":", "@", "&", "*", "$", ".", "~"}

\* The leaf name of the normalized, stripped path of the URI given.
ClaimLeaf ==
    LET full == IF SubSeq(ux.uri, 1, Min(4, Len(ux.uri))) # <<"v", "o", "s", ":">>
                THEN rootNode \o ux.uri ELSE ux.uri
    IN  basename(strip(normpath(urlparse(full).path)))

\* C20: fixURI accepts a URI exactly when the leaf name of the normalized,
\* stripped path consists of allow-list characters; otherwise it raises
\* invalid-argument.  What it returns ends in that leaf name.
C20_LeafValidated ==
    ux.calls >= 1 =>
        IF \A i \in 1..Len(ClaimLeaf) : ClaimLeaf[i] \in ClaimAllowed
        THEN ux.once.kind = "return" /\ basename(ux.once.data) = ClaimLeaf
        ELSE ux.once.kind = "raise" /\ ux.once.err = "EINVAL"

\* C21: Client.open gives GET for O_RDONLY, PUT for O_WRONLY, O_CREAT or both,
\* POST for O_APPEND, DELETE for O_TRUNC, and HEAD when head is true; for an
\* integer mode that is none of these and holds none of these flags, with
\* head false, it raises the invalid-mode IOError, makes no VOFile and sends
\* no request, whatever uri, view and URL are.
ClaimTable ==
    [m \in {O_RDONLY, O_WRONLY, O_CREAT, O_WRONLY + O_CREAT, O_APPEND, O_TRUNC} |->
        CASE m = O_RDONLY -> "GET"
          [] m \in {O_WRONLY, O_CREAT, O_WRONLY + O_CREAT} -> "PUT"
          [] m = O_APPEND -> "POST"
          [] m = O_TRUNC -> "DELETE"]

ClaimOutside(m) ==
    /\ m # O_RDONLY
    /\ \A b \in {O_WRONLY, O_CREAT, O_APPEND, O_TRUNC} : ~HasBit(m, b)

\* The request the call put on the wire, if any.
OpenRequests == {log[i] : i \in ReqIdx(log)}

ClaimElapsed == (gconn.now - gconn.timestart) * Tick

C22_ConnectRetries ==
    gconn.stage = "done" =>
        \/ result.kind = "return" /\ gconn.connected /\ gconn.last = "ok"
        \/ /\ gconn.last = "Exception"
           /\ result.kind = "raise"
           /\ result.err = "ECONNREFUSED"
        \/ /\ gconn.last = "HTTPException"
           /\ result.kind = "raise"
           /\ result.exc = "HTTPException"
           /\ ClaimElapsed > 1200

\* C23: a move that got past fixURI has made a POST to the transfer endpoint
\* and written one document with target = fixURI(src), direction =
\* fixURI(dst) and keepBytes = false; once it is over it has returned True
\* if the response to that POST had status 200 and False if it had any
\* other status.
ClaimDoc(src, dst) ==
    <<"<transfer>", "<target>">> \o src \o <<"</target>", "<direction>">> \o dst
    \o <<"</direction>", "<keepBytes>", "false", "</keepBytes>", "</transfer>">>

\* The responses read so far, in order.
ClaimResponses == [i \in 1..NResp(log) |->
                     log[CHOOSE j \in RespIdx(log) :
                             Cardinality({k \in RespIdx(log) : k <= j}) = i].r]

C23_MoveTrueIff200 ==
    (mv.stage = "done" /\ mv.doc # <<>>) =>
        /\ log[1] = ReqEv("POST", VOTransfer)
        /\ mv.doc = ClaimDoc(fixURI(mv.srcURI).data, fixURI(mv.destURI).data)
        /\ result.kind = "return"
        /\ result.ret = (IF ClaimResponses[1].status = 200 THEN "True" ELSE "False")

\* C24: a Node constructed from an element has a type that is not None and
\* a uri; from an element without a type attribute no Node is constructed:
\* the constructor raises.
C24_TypePresent ==
    (made.stage = "done" /\ made.arg.how = "parse") =>
        /\ (result.kind = "return" =>
              /\ made.obj.exists
              /\ made.obj.type # null
              /\ made.obj.uri # <<missing>>)
        /\ (made.arg.type = null => result.kind = "raise" /\ ~made.obj.exists)

\* C27: the Node a constructor makes from (uri, type, properties), mkdir's
\* container node included, is the one the same arguments give in a process
\* that has constructed no node before.
ClaimFirst(arg) == Node_new(arg, missing).obj

C27_NoSharedState ==
    (made.stage = "done" /\ made.arg.how \in {"create", "mkdir"} /\ result.kind = "return") =>
        /\ made.obj.props = ClaimFirst(made.arg).props
        /\ made.obj.ptype = ClaimFirst(made.arg).ptype

\* C25: a node as it was parsed or created, or as it is after changes
\* followed by a refresh (update()), serialises to a document that parses
\* into a node with the same type and an equal property map.
ClaimRefreshed ==
    \/ nop.hist = <<>>
    \/ nop.hist # <<>> /\ LastOp.name = "update" /\ result.kind = "return"

C25_SerializeParse ==
    ClaimRefreshed =>
        /\ parse(Node_str(node)).out.kind = "return"
        /\ parse(Node_str(node)).n.type = node.type
        /\ parse(Node_str(node)).n.props = node.props

\* C26: once close() has returned or raised, no connection the VOFile
\* acquired is open; and at no time are two of them open, so that read() has
\* closed the previous connection before it holds a new one.
C26_ConnectionsReleased ==
    f.exists =>
        /\ f.closed => conns = {}
        /\ Cardinality(conns) <= 1
        /\ conns \subseteq {f.httpCon}

\* C28: every request of the child load after the first carries uri = the
\* URI of the last child added; the load stops right after the first page
\* that adds no child, and not before; against a server with finitely many
\* children that starts each page at the continuation URI it comes to an
\* end; for an empty container it makes exactly one page request.
ClaimPageURL(children) ==
    IF children = <<>> THEN "https://host/vospace/nodes/a"
    ELSE CASE children[Len(children)] = "vos://h/a/c1" -> "https://host/vospace/nodes/a?uri=vos://h/a/c1"
           [] children[Len(children)] = "vos://h/a/c2" -> "https://host/vospace/nodes/a?uri=vos://h/a/c2"
           [] children[Len(children)] = "vos://h/a/c3" -> "https://host/vospace/nodes/a?uri=vos://h/a/c3"

ClaimPageStep ==
    (pg.stage = "loop" /\ pg'.stage # "") =>
        /\ NReq(log') = NReq(log) + 1
        /\ lastRequest(log') = ClaimPageURL(pg.nodeList)
        /\ pg'.stage = "done" <=> (result'.kind = "return" /\ pg'.nodeList = pg.nodeList)
        /\ pg'.stage = "loop" <=> (result'.kind = "none" /\ Len(pg'.nodeList) > Len(pg.nodeList))

ClaimOnePage ==
    (pg.stage = "done" /\ pg.isdir /\ pg.limit > 0 /\ server.children = <<>>) => NReq(log) = 2

C28_PagingTerminates ==
    /\ [][ClaimPageStep]_vars
    /\ []ClaimOnePage
    /\ (pg.stage = "loop") ~> (pg.stage \in {"done", "failed"})

C28_Witness ==
    /\ pg.stage = "done"
    /\ Len(pg.served) = 3
    /\ Len(pg.nodeList) = 3
    /\ server.pageLen = 2

\* C29: while the VOFile is open (close() has not been called on this
\* request), what write() has put on the wire does not end the chunked
\* body: read as a chunked body, the wire holds no chunk of size zero.
ClaimDigitValue(d) == CHOOSE n \in 0..15 : ClaimDigit(n) = d

RECURSIVE ClaimSize(_)
ClaimSize(ds) ==
    IF ds = <<>> THEN 0
    ELSE 16 * ClaimSize(SubSeq(ds, 1, Len(ds) - 1)) + ClaimDigitValue(ds[Len(ds)])

\* A receiver's reading of the wire: a size line, that many bytes, CRLF,
\* and so on; the body ends at the first size line that says zero.
RECURSIVE ClaimBodyEnded(_)
ClaimBodyEnded(s) ==
    IF \A i \in 1..Len(s) : s[i] # "\r" THEN FALSE
    ELSE LET e == CHOOSE i \in 1..Len(s) : s[i] = "\r" /\ \A j \in 1..(i - 1) : s[j] # "\r"
             n == ClaimSize(SubSeq(s, 1, e - 1))
         IN  IF n = 0 THEN TRUE
             ELSE ClaimBodyEnded(SubSeq(s, e + n + 4, Len(s)))

C29_TerminatorOnlyByClose ==
    (f.exists /\ ~f.closed) => ~ClaimBodyEnded(wire)
====
